---- MODULE Spec2Model ----
(***************************************************************************)
(* Crystal: intent arbitration and skill dispatch core.                    *)
(*                                                                         *)
(*   SkillManager.run_skill          src/skill_manager.py                  *)
(*   detect_intent                   src/brain/intent_judge.py             *)
(*   CrystalBrain._background_monitor src/brain/brain.py                   *)
(*   ReminderSkill                   src/skills/reminder_skill.py          *)
(*   SkillArbitrator.select_skill    src/brain/arbitrator.py               *)
(*   SkillManager.load_skills        src/skill_manager.py                  *)
(*   CrystalBrain.process            src/brain/brain.py                    *)
(*   SkillBridge.try_run             src/brain/skill_bridge.py             *)
(*   speak, stop_speaking            src/tts_bridge.py                     *)
(*                                                                         *)
(* Python strings are sequences of one-character strings, so that lower(), *)
(* ==, `in`, strip() and the \b...\b regex search are computed, not        *)
(* assumed.  Python dicts are records whose DOMAIN is the dict's key set.  *)
(***************************************************************************)
EXTENDS Integers, Sequences, FiniteSets, TLC

VARIABLES
    skills,          \* SkillManager.skills: the registry, in registration order
    dpc,             \* request path: "idle" | "returned"
    dInput,          \* run_skill: user_input
    dIntent,         \* run_skill: intent_result (PyNone when not supplied)
    dBeh,            \* what each skill instance does when called in this request
    dCalls,          \* calls run_skill made on skill instances, in order
    dRet,            \* what run_skill handed to its caller
    jpc,             \* detect_intent: "start" | "done"
    jText,           \* detect_intent: the text argument
    jSims,           \* per intent, the similarities of its reference phrases
    jEncodeOk,       \* whether model.encode / util.cos_sim return
    jResult,         \* what detect_intent handed to its caller
    monitor_active,  \* CrystalBrain.monitor_active
    mpc,             \* monitor thread: "test" | "sleep" | "exited"
    hooksOf,         \* per skill instance, the periodic hooks it defines
    mCpu,            \* psutil.cpu_percent() of the last cycle
    mRaising,        \* the hooks that raise when invoked in the last cycle
    mInvoked,        \* the hooks invoked in the last cycle, in order
    mSlept,          \* seconds of the sleep that ended the last cycle
    now,             \* datetime.now(), in minutes
    file,            \* tasks.json: [valid, tasks]; not valid while being rewritten
    rpc,             \* ReminderSkill.run: "idle" | "read" | "write" | "dump"
    rNew,            \* run: the task being added
    rTasks,          \* run: its local list `tasks`
    rCount,          \* number of run calls so far
    confirmed,       \* tasks for which run returned "Clock synchronized..."
    hpc,             \* reminder_monitor: "idle" | "scan" | "write" | "dump"
    hTasks,          \* reminder_monitor: its local list `tasks`
    alerted,         \* tasks for which the reminder line was printed
    apc,             \* select_skill: "idle" | "returned"
    aInput,          \* select_skill: user_input
    aBeh,            \* what each skill instance does when run in this call
    aLlm,            \* what run_llm does in this call: a text, or it raises
    aChoice,         \* what the operator types at the prompt
    aCalls,          \* calls select_skill made on skill instances, in order
    aAsked,          \* [llm, prompt]: whether run_llm / input() were called
    aRet,            \* what select_skill handed to its caller
    lpc,             \* SkillManager.load_skills: "new" | "loaded"
    lFiles,          \* the .py files of skills_dir, in os.listdir order
    lRet,            \* what load_skills handed to its caller
    intent_skill_map,\* CrystalBrain.intent_skill_map
    history,         \* Memory.history
    bpc,             \* process: "idle" | "detect" | "execute" | "fallback" | "returned"
    bText,           \* process: user_text
    bResult,         \* process: intent_result (PyNone when not reached)
    bSkillName,      \* process: skill_name (PyNone when not reached or unmapped)
    bOutput,         \* process: output of run_skill (PyNone when not called)
    bCalls,          \* calls made on skill instances during process, in order
    bFinal,          \* what process handed to its caller
    skill_keywords,  \* SkillBridge.skill_keywords, in insertion order
    gpc,             \* try_run: "idle" | "returned"
    gInput,          \* try_run: user_input
    gBeh,            \* what each skill instance does when called in this call
    gSelected,       \* what _find_skill_by_keywords returned
    gCalls,          \* calls made on skill instances during try_run, in order
    gRet,            \* what try_run handed to its caller
    current_engine,  \* tts_bridge._current_engine: PyNone or an engine
    engine_lock,     \* tts_bridge._engine_lock: the set of threads holding it
    tpc,             \* per speak thread, its position in run()
    spc,             \* stop_speaking: "idle" | "call"
    sCount,          \* number of stop_speaking calls so far
    interrupted      \* the threads whose utterance stop_speaking has cut short

dvars == <<dpc, dInput, dIntent, dBeh, dCalls, dRet>>
jvars == <<jpc, jText, jSims, jEncodeOk, jResult>>
mvars == <<monitor_active, mpc, hooksOf, mCpu, mRaising, mInvoked, mSlept>>
rvars == <<now, file, rpc, rNew, rTasks, rCount, confirmed, hpc, hTasks, alerted>>
avars == <<apc, aInput, aBeh, aLlm, aChoice, aCalls, aAsked, aRet>>
lvars == <<lpc, lFiles, lRet>>
bvars == <<intent_skill_map, history, bpc, bText, bResult, bSkillName, bOutput, bCalls, bFinal>>
gvars == <<skill_keywords, gpc, gInput, gBeh, gSelected, gCalls, gRet>>
tvars == <<current_engine, engine_lock, tpc, spc, sCount, interrupted>>
yvars == <<bvars, gvars, tvars>>
xvars == <<lvars, yvars>>
vars == <<skills, dvars, jvars, mvars, rvars, avars, xvars>>

(***************************************************************************)
(* Bounds                                                                  *)
(***************************************************************************)
NumSkills == 2
NumIntents == 2
MaxPhrases == 2
MaxRequests == 2
MaxClock == 1
MaxMinutes == 1

(***************************************************************************)
(* Python values                                                           *)
(***************************************************************************)
PyNone == [t |-> "None"]
PyStr(s) == [t |-> "str", v |-> s]
PyRaise(e) == [t |-> "raise", exc |-> e]

UpperAlphabet ==
    <<"A","B","C","D","E","F","G","H","I","J","K","L","M",
      "N","O","P","Q","R","S","T","U","V","W","X","Y","Z">>
LowerAlphabet ==
    <<"a","b","c","d","e","f","g","h","i","j","k","l","m",
      "n","o","p","q","r","s","t","u","v","w","x","y","z">>
Digits == <<"0","1","2","3","4","5","6","7","8","9">>

Range(f) == {f[i] : i \in DOMAIN f}

LowerChar(c) ==
    IF c \in Range(UpperAlphabet)
    THEN LowerAlphabet[CHOOSE i \in DOMAIN UpperAlphabet : UpperAlphabet[i] = c]
    ELSE c

\* str.lower()
Lower(s) == [i \in 1..Len(s) |-> LowerChar(s[i])]

\* \w of the re module
IsWordChar(c) ==
    c \in Range(UpperAlphabet) \cup Range(LowerAlphabet) \cup Range(Digits) \cup {"_"}

WordAt(s, i) == i \in 1..Len(s) /\ IsWordChar(s[i])

\* \b between s[p] and s[p+1]
Boundary(s, p) == WordAt(s, p) # WordAt(s, p + 1)

\* sub in s
Contains(s, sub) ==
    \E p \in 0..(Len(s) - Len(sub)) : SubSeq(s, p + 1, p + Len(sub)) = sub

\* re.search(rf"\b{re.escape(kw)}\b", s)
WordSearch(kw, s) ==
    \E p \in 0..(Len(s) - Len(kw)) :
        /\ SubSeq(s, p + 1, p + Len(kw)) = kw
        /\ Boundary(s, p)
        /\ Boundary(s, p + Len(kw))

(***************************************************************************)
(* Strings used by the bounded inputs                                      *)
(***************************************************************************)
sClock == <<"c","l","o","c","k">>
sClockName == <<"C","l","o","c","k">>
sTv == <<"t","v">>
sTvName == <<"T","V">>
sMail == <<"m","a","i","l">>
sMailName == <<"M","a","i","l">>
sCam == <<"c","a","m">>
sCamName == <<"C","a","m">>

NamePool == <<sClockName, sTvName, sMailName, sCamName>>

(***************************************************************************)
(* Skill instances, as the dispatcher sees them                            *)
(***************************************************************************)
\* What Skill.run can do: raise, return None, return "", return a text.
Outcomes == {"raise", "None", "empty", "text"}

\* One request's behaviour of one instance; a skill that is not ready is
\* never run (the outcome is then irrelevant and fixed to "None").
Behaviour ==
    {[ready |-> TRUE, out |-> o] : o \in Outcomes} \cup {[ready |-> FALSE, out |-> "None"]}

Behaviours == [1..NumSkills -> Behaviour]

ResultText(i) ==
    IF i < 10 THEN <<"r", Digits[i + 1]>>
    ELSE <<"r", Digits[(i \div 10) + 1], Digits[(i % 10) + 1]>>

\* the readiness report ignored: every skill passes
CheckRequirementsAlways(beh, i) == TRUE

\* instance.check_requirements()
CheckRequirements(beh, i) == beh[i].ready

\* instance.run({...})
SkillRun(beh, i) ==
    CASE beh[i].out = "raise" -> PyRaise("SkillError")
      [] beh[i].out = "None"  -> PyNone
      [] beh[i].out = "empty" -> PyStr(<<>>)
      [] OTHER                -> PyStr(ResultText(i))

CallCheck(i) == [op |-> "check_requirements", skill |-> i]
CallRun(i) == [op |-> "run", skill |-> i]

(***************************************************************************)
(* SkillManager.run_skill                                                  *)
(***************************************************************************)
InList(x, list) == \E k \in 1..Len(list) : list[k] = x

\* the intent block entered for execute decisions only
IntentSuppliedOnExecute(ir) == ir # PyNone /\ ir.action = "execute"

\* if intent_result:
IntentSupplied(ir) == ir # PyNone

\* matches = [s["instance"] for s in self.skills if intent in s["supported_intents"]]
Matches(registry, intent) ==
    LET sel == SelectSeq(registry, LAMBDA s : InList(intent, s.supported_intents))
    IN  [k \in 1..Len(sel) |-> sel[k].instance]

\* the test inverted: `if result is None: return result`
ResultAcceptedInverted(result) == result = PyNone

\* if result is not None: return result
ResultAccepted(result) == result # PyNone

\* The texts of lines 107-144 are kept without their leading pictograph.
\* sep.join(list)
RECURSIVE Join(_, _)
Join(sep, list) ==
    IF list = <<>> THEN <<>>
    ELSE IF Len(list) = 1 THEN list[1]
    ELSE list[1] \o sep \o Join(sep, Tail(list))

MsgClarify(candidates) ==
    PyStr(<<"I found multiple possible actions: ">> \o Join(<<",", " ">>, candidates)
          \o <<". Which one should I run?">>)
\* the confirmation prompt without the intent's name
MsgConfirmUnnamed(intent) == PyStr(<<"Do you want me to run it? (yes / no)">>)
MsgConfirm(intent) ==
    PyStr(<<"Do you want me to run '">> \o intent \o <<"'? (yes / no)">>)
MsgNoMappedSkills(intent) ==
    PyStr(<<"Intent '">> \o intent \o <<"' has no mapped skills.">>)
MsgNoSkillCouldExecute(intent) ==
    PyStr(<<"No skill could execute intent '">> \o intent \o <<"'.">>)

\* for instance in matches: ...  (an exception of run is not caught: it
\* leaves run_skill at once)
RECURSIVE IntentLoop(_, _, _, _, _)
IntentLoop(matches, k, intent, beh, calls) ==
    IF k > Len(matches)
    THEN [ret |-> MsgNoSkillCouldExecute(intent), calls |-> calls]
    ELSE LET i  == matches[k]
             c1 == Append(calls, CallCheck(i))
         IN  IF ~CheckRequirements(beh, i)
             THEN IntentLoop(matches, k + 1, intent, beh, c1)
             ELSE LET c2     == Append(c1, CallRun(i))
                      result == SkillRun(beh, i)
                  IN  IF result.t = "raise"
                      THEN [ret |-> result, calls |-> c2]
                      ELSE IF ResultAccepted(result)
                      THEN [ret |-> result, calls |-> c2]
                      ELSE IntentLoop(matches, k + 1, intent, beh, c2)

IntentPath(registry, ir, beh) ==
    LET action == ir.action
        intent == IF "intent" \in DOMAIN ir THEN ir.intent ELSE <<>>
        candidates == IF "candidates" \in DOMAIN ir THEN ir.candidates ELSE <<>>
        matches == Matches(registry, intent)
    IN  CASE action = "none"    -> [ret |-> PyNone, calls |-> <<>>]
          [] action = "clarify" -> [ret |-> MsgClarify(candidates), calls |-> <<>>]
          [] action = "confirm" -> [ret |-> MsgConfirm(intent), calls |-> <<>>]
          [] action # "execute" -> [ret |-> PyNone, calls |-> <<>>]
          [] OTHER ->
                IF matches = <<>>
                THEN [ret |-> MsgNoMappedSkills(intent), calls |-> <<>>]
                ELSE IntentLoop(matches, 1, intent, beh, <<>>)

\* if user_input.lower() == s["name"].lower()
NameMatches(user_input, s) == Lower(user_input) = Lower(s.name)

\* if re.search(rf"\b{re.escape(kw.lower())}\b", user_input.lower())
KeywordMatches(kw, user_input) == WordSearch(Lower(kw), Lower(user_input))

\* 3: for s in self.skills: for kw in s["keywords"]: ...  (the loop is at
\* keyword j of skill n; the keywords that do not match are passed over in
\* one step)
RECURSIVE KeywordLoop(_, _, _, _, _, _)
KeywordLoop(registry, n, j, user_input, beh, calls) ==
    IF n > Len(registry)
    THEN [ret |-> PyNone, calls |-> calls]
    ELSE LET kws  == registry[n].keywords
             hits == {k \in j..Len(kws) : KeywordMatches(kws[k], user_input)}
         IN  IF hits = {}
             THEN KeywordLoop(registry, n + 1, 1, user_input, beh, calls)
             ELSE LET i  == registry[n].instance
                      c1 == Append(calls, CallCheck(i))
                  IN  IF CheckRequirements(beh, i)
                      THEN [ret |-> SkillRun(beh, i), calls |-> Append(c1, CallRun(i))]
                      ELSE LET k == CHOOSE a \in hits : \A b \in hits : a <= b
                           IN  KeywordLoop(registry, n, k + 1, user_input, beh, c1)

\* 2: for s in self.skills: if user_input.lower() == s["name"].lower(): ...
\* A named skill that is not ready does not end the call: the loop goes on
\* and then the keyword fallback runs.
RECURSIVE NameLoop(_, _, _, _, _)
NameLoop(registry, n, user_input, beh, calls) ==
    IF n > Len(registry)
    THEN KeywordLoop(registry, 1, 1, user_input, beh, calls)
    ELSE IF ~NameMatches(user_input, registry[n])
    THEN NameLoop(registry, n + 1, user_input, beh, calls)
    ELSE LET i  == registry[n].instance
             c1 == Append(calls, CallCheck(i))
         IN  IF CheckRequirements(beh, i)
             THEN [ret |-> SkillRun(beh, i), calls |-> Append(c1, CallRun(i))]
             ELSE NameLoop(registry, n + 1, user_input, beh, c1)

run_skill(registry, user_input, intent_result, beh) ==
    IF IntentSupplied(intent_result)
    THEN IntentPath(registry, intent_result, beh)
    ELSE NameLoop(registry, 1, user_input, beh, <<>>)

(***************************************************************************)
(* The request path                                                        *)
(***************************************************************************)
KeywordChoices == {<<sClock>>, <<sTv>>, <<sTv, sClock>>}
IntentChoices == {<<sClock>>, <<sClock, sTv>>}

Descriptor(i, kw, si) ==
    [instance |-> i, name |-> NamePool[i], keywords |-> kw, supported_intents |-> si]

Registries ==
    {[i \in 1..NumSkills |-> Descriptor(i, kws[i], sis[i])] :
        kws \in [1..NumSkills -> KeywordChoices],
        sis \in [1..NumSkills -> IntentChoices]}

Inputs == {sClock, sTvName, <<"t","v"," ","o","n">>, sMail}

ExecuteResult(intent) == [action |-> "execute", intent |-> intent, confidence |-> 7700]

IntentResults ==
    { PyNone,
      [action |-> "none"],
      [action |-> "clarify", intent |-> sClock, confidence |-> 7700,
       candidates |-> <<sClock, sTv>>],
      [action |-> "confirm", intent |-> sClock, confidence |-> 6300],
      ExecuteResult(sClock), ExecuteResult(sTv), ExecuteResult(sMail) }

JIdle ==
    /\ jpc = "done"
    /\ jText = <<>>
    /\ jSims = <<>>
    /\ jEncodeOk = TRUE
    /\ jResult = [action |-> "none"]

\* No monitor thread is modelled.
MIdle ==
    /\ monitor_active = FALSE
    /\ mpc = "exited"
    /\ hooksOf = <<>>
    /\ mCpu = 0
    /\ mRaising = {}
    /\ mInvoked = <<>>
    /\ mSlept = 0

\* ReminderSkill.__init__: tasks.json holds [] and nothing runs.
RIdle ==
    /\ now = 0
    /\ file = [valid |-> TRUE, tasks |-> <<>>]
    /\ rpc = "idle"
    /\ rNew = PyNone
    /\ rTasks = <<>>
    /\ rCount = 0
    /\ confirmed = {}
    /\ hpc = "idle"
    /\ hTasks = <<>>
    /\ alerted = {}

AIdle ==
    /\ apc = "idle"
    /\ aInput = <<>>
    /\ aBeh = <<>>
    /\ aLlm = PyNone
    /\ aChoice = <<>>
    /\ aCalls = <<>>
    /\ aAsked = [llm |-> FALSE, prompt |-> FALSE]
    /\ aRet = PyNone

\* load_skills has run before the state the other specifications start in.
LIdle ==
    /\ lpc = "loaded"
    /\ lFiles = <<>>
    /\ lRet = PyNone

\* No CrystalBrain.process call is under way.
BIdle ==
    /\ intent_skill_map = <<>>
    /\ history = <<>>
    /\ bpc = "returned"
    /\ bText = <<>>
    /\ bResult = PyNone
    /\ bSkillName = PyNone
    /\ bOutput = PyNone
    /\ bCalls = <<>>
    /\ bFinal = PyNone

\* No SkillBridge.try_run call is under way.
GIdle ==
    /\ skill_keywords = <<>>
    /\ gpc = "returned"
    /\ gInput = <<>>
    /\ gBeh = <<>>
    /\ gSelected = PyNone
    /\ gCalls = <<>>
    /\ gRet = PyNone

\* No speak thread exists and stop_speaking is not running.
TIdle ==
    /\ current_engine = PyNone
    /\ engine_lock = {}
    /\ tpc = <<>>
    /\ spc = "idle"
    /\ sCount = 0
    /\ interrupted = {}

YIdle == BIdle /\ GIdle /\ TIdle

XIdle == LIdle /\ YIdle

DIdle ==
    /\ dpc = "idle"
    /\ dInput = <<>>
    /\ dIntent = PyNone
    /\ dBeh = <<>>
    /\ dCalls = <<>>
    /\ dRet = PyNone

RunSkill ==
    /\ dpc = "idle"
    /\ \E ui \in Inputs, ir \in IntentResults, beh \in Behaviours :
          LET r == run_skill(skills, ui, ir, beh)
          IN  /\ dInput' = ui
              /\ dIntent' = ir
              /\ dBeh' = beh
              /\ dCalls' = r.calls
              /\ dRet' = r.ret
    /\ dpc' = "returned"
    /\ UNCHANGED <<skills, xvars, jvars, mvars, rvars, avars>>

\* The caller has taken the result; the next request may come.
NextRequest ==
    /\ dpc = "returned"
    /\ dpc' = "idle"
    /\ dInput' = <<>>
    /\ dIntent' = PyNone
    /\ dBeh' = <<>>
    /\ dCalls' = <<>>
    /\ dRet' = PyNone
    /\ UNCHANGED <<skills, xvars, jvars, mvars, rvars, avars>>

InitDispatch == skills \in Registries /\ DIdle /\ JIdle /\ MIdle /\ RIdle /\ AIdle /\ XIdle
NextDispatch == RunSkill \/ NextRequest
SpecDispatch == InitDispatch /\ [][NextDispatch]_vars

(***************************************************************************)
(* detect_intent                                                           *)
(*                                                                         *)
(* Scores are in units of 0.0001 (0.70 is 7000).                           *)
(***************************************************************************)
HIGH_CONFIDENCE == 7000
MEDIUM_CONFIDENCE == 5000
AMBIGUITY_MARGIN == 700

\* The keys of INTENTS, in declaration (dict) order.
IntentNames ==
    <<<<"a","p","p","_","p","i","l","o","t">>,
      <<"m","u","s","i","c","_","s","k","i","l","l">>,
      <<"c","a","m","e","r","a","_","s","k","i","l","l">>,
      <<"w","e","a","t","h","e","r","_","s","e","n","t","i","n","e","l">>,
      <<"c","l","o","c","k">>,
      <<"f","i","l","e","_","c","o","m","m","a","n","d","e","r">>,
      <<"e","m","a","i","l","_","s","k","i","l","l">>,
      <<"w","e","b","_","r","e","s","e","a","r","c","h","e","r">>,
      <<"r","e","m","i","n","d","e","r","_","s","k","i","l","l">>,
      <<"s","m","a","r","t","_","h","o","m","e">>,
      <<"s","y","s","t","e","m","_","s","e","n","t","i","n","e","l">>,
      <<"w","i","f","i","_","s","c","a","n","n","e","r">>,
      <<"o","s","i","n","t","_","i","n","v","e","s","t","i","g","a","t","o","r">>,
      <<"l","o","c","a","t","i","o","n","_","s","e","n","t","i","n","e","l">>,
      <<"g","r","e","e","t">>>>

IMPERATIVE_VERBS ==
    <<<<"o","p","e","n">>,
      <<"l","a","u","n","c","h">>,
      <<"s","t","a","r","t">>,
      <<"p","l","a","y">>,
      <<"s","e","a","r","c","h">>,
      <<"w","a","t","c","h">>,
      <<"s","t","r","e","a","m">>,
      <<"t","y","p","e">>,
      <<"m","o","v","e">>,
      <<"d","e","l","e","t","e">>,
      <<"r","e","n","a","m","e">>,
      <<"c","o","p","y">>>>

\* What keyword_processor holds: the one-word phrases of INTENTS, then the verbs.
GateKeywords ==
    {<<"s","n","a","p","s","h","o","t">>, <<"t","o","d","o">>, <<"h","e","l","l","o">>}
        \cup Range(IMPERATIVE_VERBS)

IsSpace(c) == c \in {" ", "\t", "\n"}

\* str.strip()
RECURSIVE LStrip(_)
LStrip(s) == IF s # <<>> /\ IsSpace(Head(s)) THEN LStrip(Tail(s)) ELSE s
RECURSIVE RStrip(_)
RStrip(s) ==
    IF s # <<>> /\ IsSpace(s[Len(s)]) THEN RStrip(SubSeq(s, 1, Len(s) - 1)) ELSE s
Strip(s) == RStrip(LStrip(s))

\* s.split()[0] of a string that holds a non-space character
RECURSIVE TakeWord(_)
TakeWord(s) ==
    IF s = <<>> \/ IsSpace(Head(s)) THEN <<>> ELSE <<Head(s)>> \o TakeWord(Tail(s))
FirstWord(s) == TakeWord(LStrip(s))

\* keyword_processor.extract_keywords(text), as the set of keywords found
ExtractKeywords(text) == {kw \in GateKeywords : WordSearch(kw, text)}

\* if not keywords and first_word not in IMPERATIVE_VERBS
GateRejects(text) ==
    ExtractKeywords(text) = {} /\ ~InList(FirstWord(text), IMPERATIVE_VERBS)

MaxOf(S) == CHOOSE x \in S : \A y \in S : y <= x

MinOf(S) == CHOOSE x \in S : \A y \in S : x <= y

\* the weakest phrase taken as the intent's score
IntentScoreMin(sims) == MinOf(sims)

\* util.cos_sim(text_emb, emb).max().item()
IntentScore(sims) == MaxOf(sims)

\* scores.sort(key=lambda x: x[1], reverse=True): stable, equal scores keep
\* their order
RECURSIVE SortByScoreDesc(_)
SortByScoreDesc(scores) ==
    IF scores = <<>> THEN <<>>
    ELSE LET top == MaxOf({scores[k].score : k \in 1..Len(scores)})
             k   == CHOOSE a \in 1..Len(scores) :
                        /\ scores[a].score = top
                        /\ \A b \in 1..(a - 1) : scores[b].score # top
             rest == [m \in 1..(Len(scores) - 1) |->
                        IF m < k THEN scores[m] ELSE scores[m + 1]]
         IN  <<scores[k]>> \o SortByScoreDesc(rest)

Abs(x) == IF x < 0 THEN -x ELSE x

\* the margin taken exclusive: abs(top_score - score) < AMBIGUITY_MARGIN
IsCloseStrict(top_score, score) == Abs(top_score - score) < AMBIGUITY_MARGIN

\* abs(top_score - score) <= AMBIGUITY_MARGIN
IsClose(top_score, score) == Abs(top_score - score) <= AMBIGUITY_MARGIN

\* round(top_score, 3), in units of 0.0001
Round3(score) == ((score + 5) \div 10) * 10

\* the threshold taken exclusive: top_score > HIGH_CONFIDENCE
IsHighStrict(score) == score > HIGH_CONFIDENCE

\* the execute tier starting at MEDIUM_CONFIDENCE
IsHighAtMedium(score) == score >= MEDIUM_CONFIDENCE

\* top_score >= HIGH_CONFIDENCE
IsHigh(score) == score >= HIGH_CONFIDENCE

\* the MEDIUM threshold dropped
IsMediumAlways(score) == TRUE

\* top_score >= MEDIUM_CONFIDENCE
IsMedium(score) == score >= MEDIUM_CONFIDENCE

\* the decision with `candidates` filled in for every action but none
DecideKeepsCandidates(ranked) ==
    LET top_intent == ranked[1].intent
        top_score  == ranked[1].score
        rest       == Tail(ranked)
        close      == SelectSeq(rest, LAMBDA e : IsClose(top_score, e.score))
        close_matches == [k \in 1..Len(close) |-> close[k].intent]
        candidates == <<top_intent>> \o close_matches
    IN  IF close_matches # <<>> /\ IsMedium(top_score)
        THEN [action |-> "clarify", intent |-> top_intent,
              confidence |-> Round3(top_score), candidates |-> candidates]
        ELSE IF IsHigh(top_score)
        THEN [action |-> "execute", intent |-> top_intent,
              confidence |-> Round3(top_score), candidates |-> candidates]
        ELSE IF IsMedium(top_score)
        THEN [action |-> "confirm", intent |-> top_intent,
              confidence |-> Round3(top_score), candidates |-> candidates]
        ELSE [action |-> "none"]

\* lines 233-268: the decision on a sorted, non-empty ranking
Decide(ranked) ==
    LET top_intent == ranked[1].intent
        top_score  == ranked[1].score
        rest       == Tail(ranked)
        close      == SelectSeq(rest, LAMBDA e : IsClose(top_score, e.score))
        close_matches == [k \in 1..Len(close) |-> close[k].intent]
    IN  IF close_matches # <<>> /\ IsMedium(top_score)
        THEN [action |-> "clarify", intent |-> top_intent,
              confidence |-> Round3(top_score),
              candidates |-> <<top_intent>> \o close_matches]
        ELSE IF IsHigh(top_score)
        THEN [action |-> "execute", intent |-> top_intent,
              confidence |-> Round3(top_score)]
        ELSE IF IsMedium(top_score)
        THEN [action |-> "confirm", intent |-> top_intent,
              confidence |-> Round3(top_score)]
        ELSE [action |-> "none"]

\* lines 220-223: one (intent, score) per entry of INTENT_EMBEDDINGS
Scores(intents, sims) ==
    [k \in 1..Len(intents) |-> [intent |-> intents[k], score |-> IntentScore(sims[k])]]

\* the text encoded before the gate is consulted
detect_intentEncodeFirst(raw, intents, sims, encode_ok) ==
    LET text == Strip(Lower(raw))
    IN  IF text = <<>> THEN [action |-> "none"]
        ELSE IF ~encode_ok THEN PyRaise("EncodeError")
        ELSE IF GateRejects(text) THEN [action |-> "none"]
        ELSE Decide(SortByScoreDesc(Scores(intents, sims)))

\* detect_intent(text); encode_ok is whether model.encode / cos_sim return
\* (they raise otherwise, and nothing in detect_intent catches it)
detect_intent(raw, intents, sims, encode_ok) ==
    LET text == Strip(Lower(raw))
    IN  IF text = <<>> THEN [action |-> "none"]
        ELSE IF GateRejects(text) THEN [action |-> "none"]
        ELSE IF ~encode_ok THEN PyRaise("EncodeError")
        ELSE Decide(SortByScoreDesc(Scores(intents, sims)))

(***************************************************************************)
(* detect_intent applied to bounded inputs                                 *)
(***************************************************************************)
\* The first entries of INTENTS.
Intents == SubSeq(IntentNames, 1, NumIntents)

ScoreValues == {4300, 5000, 6296, 7000, 7700}

\* The similarities of one intent's phrases; their order does not matter
\* to .max(), so a row is the set of its values.
SimRows == {S \in SUBSET ScoreValues : S # {} /\ Cardinality(S) <= MaxPhrases}

JudgeTexts ==
    { <<>>,
      <<" ", " ">>,
      <<"O","p","e","n"," ","t","v">>,
      <<" ","h","e","l","l","o">>,
      <<"t","v"," ","o","n">>,
      <<"t","v"," ","p","l","a","y">> }

InitJudge ==
    /\ skills = <<>>
    /\ DIdle
    /\ MIdle
    /\ RIdle
    /\ AIdle
    /\ XIdle
    /\ jpc = "start"
    /\ jText \in JudgeTexts
    /\ jSims \in [1..NumIntents -> SimRows]
    /\ jEncodeOk \in BOOLEAN
    /\ jResult = PyNone

DetectIntent ==
    /\ jpc = "start"
    /\ jResult' = detect_intent(jText, Intents, jSims, jEncodeOk)
    /\ jpc' = "done"
    /\ UNCHANGED <<skills, xvars, dvars, mvars, rvars, avars, jText, jSims, jEncodeOk>>

NextJudge == DetectIntent
SpecJudge == InitJudge /\ [][NextJudge]_vars

(***************************************************************************)
(* CrystalBrain._background_monitor                                        *)
(***************************************************************************)
\* the first two hook names exchanged
HookNamesSwapped ==
    <<"price_monitor", "check_queue_loop", "weather_monitor", "reminder_monitor">>

\* The hook names, in the order the loop asks for them.
HookNames == <<"check_queue_loop", "price_monitor", "weather_monitor", "reminder_monitor">>

CPU_LIMIT == 90
NORMAL_SLEEP == 5
BACKOFF_SLEEP == 10

\* the threshold one point higher
OverloadedAbove(cpu) == cpu > CPU_LIMIT + 1

\* if psutil.cpu_percent() > 90
Overloaded(cpu) == cpu > CPU_LIMIT

\* fn = getattr(instance, hook, None); if callable(fn)
HasHook(hooks, i, h) == h \in hooks[i]

\* for hook in (...): the hooks of instance i from position k on.  A hook that
\* raises ends the walk: the exception leaves both for loops.
RECURSIVE HookLoop(_, _, _, _, _)
HookLoop(hooks, raising, i, k, invoked) ==
    IF k > Len(HookNames)
    THEN [invoked |-> invoked, raised |-> FALSE]
    ELSE IF ~HasHook(hooks, i, HookNames[k])
    THEN HookLoop(hooks, raising, i, k + 1, invoked)
    ELSE LET inv == Append(invoked, <<i, HookNames[k]>>)
         IN  IF <<i, HookNames[k]>> \in raising
             THEN [invoked |-> inv, raised |-> TRUE]
             ELSE HookLoop(hooks, raising, i, k + 1, inv)

\* for skill_info in self.skill_manager.skills
RECURSIVE SkillLoop(_, _, _, _, _)
SkillLoop(registry, hooks, raising, n, invoked) ==
    IF n > Len(registry)
    THEN [invoked |-> invoked, raised |-> FALSE]
    ELSE LET r == HookLoop(hooks, raising, registry[n].instance, 1, invoked)
         IN  IF r.raised THEN r
             ELSE SkillLoop(registry, hooks, raising, n + 1, r.invoked)

\* the except clause sleeping like a normal cycle
MonitorBodyNoBackoff(registry, hooks, cpu, raising) ==
    IF Overloaded(cpu)
    THEN [invoked |-> <<>>, slept |-> BACKOFF_SLEEP]
    ELSE [invoked |-> SkillLoop(registry, hooks, raising, 1, <<>>).invoked,
          slept |-> NORMAL_SLEEP]

\* One pass of the while body: the try block and its except clause.
MonitorBody(registry, hooks, cpu, raising) ==
    IF Overloaded(cpu)
    THEN [invoked |-> <<>>, slept |-> BACKOFF_SLEEP]
    ELSE LET r == SkillLoop(registry, hooks, raising, 1, <<>>)
         IN  IF r.raised
             THEN [invoked |-> r.invoked, slept |-> BACKOFF_SLEEP]
             ELSE [invoked |-> r.invoked, slept |-> NORMAL_SLEEP]

HookChoices ==
    { {},
      {"reminder_monitor"},
      {"check_queue_loop", "price_monitor", "weather_monitor"} }

CpuReadings == {50, 90, 91}

DefinedHooks(hooks) == {<<i, h>> \in (DOMAIN hooks) \X Range(HookNames) : h \in hooks[i]}

\* The hooks that raise in one cycle.  The first hook that raises ends the
\* cycle's walk, so at most one raise takes place per cycle.
RaisingChoices(hooks) == {R \in SUBSET DefinedHooks(hooks) : Cardinality(R) <= 1}

\* an iteration started without the loop test
MonitorCycleUntested ==
    /\ mpc = "test"
    /\ \E cpu \in CpuReadings, raising \in RaisingChoices(hooksOf) :
          LET r == MonitorBody(skills, hooksOf, cpu, raising)
          IN  /\ mCpu' = cpu
              /\ mRaising' = raising
              /\ mInvoked' = r.invoked
              /\ mSlept' = r.slept
    /\ mpc' = "sleep"
    /\ UNCHANGED <<skills, xvars, dvars, jvars, rvars, avars, monitor_active, hooksOf>>

\* while self.monitor_active: one iteration, up to the start of its sleep
MonitorCycle ==
    /\ mpc = "test"
    /\ monitor_active
    /\ \E cpu \in CpuReadings, raising \in RaisingChoices(hooksOf) :
          LET r == MonitorBody(skills, hooksOf, cpu, raising)
          IN  /\ mCpu' = cpu
              /\ mRaising' = raising
              /\ mInvoked' = r.invoked
              /\ mSlept' = r.slept
    /\ mpc' = "sleep"
    /\ UNCHANGED <<skills, xvars, dvars, jvars, rvars, avars, monitor_active, hooksOf>>

\* time.sleep returns; the loop tests monitor_active again
MonitorWake ==
    /\ mpc = "sleep"
    /\ mpc' = "test"
    /\ UNCHANGED <<skills, xvars, dvars, jvars, rvars, avars, monitor_active, hooksOf, mCpu, mRaising,
                   mInvoked, mSlept>>

\* while self.monitor_active: the test fails, the thread ends
MonitorExit ==
    /\ mpc = "test"
    /\ ~monitor_active
    /\ mpc' = "exited"
    /\ UNCHANGED <<skills, xvars, dvars, jvars, rvars, avars, monitor_active, hooksOf, mCpu, mRaising,
                   mInvoked, mSlept>>

\* The owner of the brain clears the flag (brain.monitor_active = False).
StopMonitor ==
    /\ monitor_active
    /\ monitor_active' = FALSE
    /\ UNCHANGED <<skills, xvars, dvars, jvars, rvars, avars, mpc, hooksOf, mCpu, mRaising, mInvoked, mSlept>>

\* CrystalBrain.__init__: the flag is set and the thread started
InitMonitor ==
    /\ skills \in {[i \in 1..NumSkills |-> Descriptor(i, <<sClock>>, <<sClock>>)]}
    /\ DIdle
    /\ JIdle
    /\ RIdle
    /\ AIdle
    /\ XIdle
    /\ monitor_active = TRUE
    /\ mpc = "test"
    /\ hooksOf \in [1..NumSkills -> HookChoices]
    /\ mCpu = 0
    /\ mRaising = {}
    /\ mInvoked = <<>>
    /\ mSlept = 0

NextMonitor == MonitorCycle \/ MonitorWake \/ MonitorExit \/ StopMonitor
SpecMonitor == InitMonitor /\ [][NextMonitor]_vars

\* The monitor thread is scheduled, and cpu_percent, the hooks and
\* time.sleep return: each step of the thread that stays possible is taken.
\* Nothing makes the owner stop the monitor.
MonitorFairness ==
    /\ WF_vars(MonitorCycle)
    /\ WF_vars(MonitorWake)
    /\ WF_vars(MonitorExit)
SpecMonitorLive == SpecMonitor /\ MonitorFairness

(***************************************************************************)
(* ReminderSkill: run on the request thread, reminder_monitor on the       *)
(* monitor thread, both on tasks.json.  No lock is taken anywhere, so the  *)
(* file operations of the two interleave freely.  open(..., 'w') empties   *)
(* the file; until json.dump has written, a reader finds no valid JSON.    *)
(***************************************************************************)
Frame == <<skills, xvars, dvars, jvars, mvars, avars>>

\* What the parsing of lines 45-48 can give.
RequestKinds == {"remind", "nodigit", "other"}

\* run, lines 42-51: parse the text and take the time
RunStart ==
    /\ rpc = "idle"
    /\ rCount < MaxRequests
    /\ rCount' = rCount + 1
    /\ \E kind \in RequestKinds, minutes \in 0..MaxMinutes :
          IF kind = "remind"
          THEN /\ rNew' = [task |-> rCount + 1, time |-> now + minutes, notified |-> FALSE]
               /\ rpc' = "read"
          ELSE /\ rNew' = PyNone
               /\ rpc' = "idle"
    /\ UNCHANGED <<Frame, now, file, rTasks, confirmed, hpc, hTasks, alerted>>

\* run, lines 53-56: json.load, then append; a file without valid JSON makes
\* json.load raise, and the bare except returns "I couldn't parse the time"
RunRead ==
    /\ rpc = "read"
    /\ IF file.valid
       THEN rTasks' = Append(file.tasks, rNew) /\ rpc' = "write"
       ELSE rTasks' = <<>> /\ rpc' = "idle"
    /\ UNCHANGED <<Frame, now, file, rNew, rCount, confirmed, hpc, hTasks, alerted>>

\* run, line 58: open(self.db_file, 'w')
RunOpenW ==
    /\ rpc = "write"
    /\ file' = [valid |-> FALSE, tasks |-> <<>>]
    /\ rpc' = "dump"
    /\ UNCHANGED <<Frame, now, rNew, rTasks, rCount, confirmed, hpc, hTasks, alerted>>

\* run, lines 59-61: json.dump and the confirmation
RunDump ==
    /\ rpc = "dump"
    /\ file' = [valid |-> TRUE, tasks |-> rTasks]
    /\ confirmed' = confirmed \cup {rNew.task}
    /\ rpc' = "idle"
    /\ UNCHANGED <<Frame, now, rNew, rTasks, rCount, hpc, hTasks, alerted>>

\* if now >= task_time and not t['notified']
IsDue(t, clock) == clock >= t.time /\ ~t.notified

\* the for loop of lines 27-33
MarkNotified(tasks, clock) ==
    [k \in 1..Len(tasks) |->
        IF IsDue(tasks[k], clock) THEN [tasks[k] EXCEPT !.notified = TRUE] ELSE tasks[k]]

\* reminder_monitor, lines 21-22; json.load raising is caught by line 38
HookRead ==
    /\ hpc = "idle"
    /\ IF file.valid
       THEN hTasks' = file.tasks /\ hpc' = "scan"
       ELSE hTasks' = <<>> /\ hpc' = "idle"
    /\ UNCHANGED <<Frame, now, file, rpc, rNew, rTasks, rCount, confirmed, alerted>>

\* reminder_monitor, lines 24-35
HookScan ==
    /\ hpc = "scan"
    /\ LET marked == MarkNotified(hTasks, now)
       IN  /\ hTasks' = marked
           /\ alerted' = alerted \cup
                 {hTasks[k].task : k \in {m \in 1..Len(hTasks) : IsDue(hTasks[m], now)}}
           /\ hpc' = IF marked # hTasks THEN "write" ELSE "idle"
    /\ UNCHANGED <<Frame, now, file, rpc, rNew, rTasks, rCount, confirmed>>

\* reminder_monitor, line 36: open(self.db_file, 'w')
HookOpenW ==
    /\ hpc = "write"
    /\ file' = [valid |-> FALSE, tasks |-> <<>>]
    /\ hpc' = "dump"
    /\ UNCHANGED <<Frame, now, rpc, rNew, rTasks, rCount, confirmed, hTasks, alerted>>

\* reminder_monitor, line 37: json.dump
HookDump ==
    /\ hpc = "dump"
    /\ file' = [valid |-> TRUE, tasks |-> hTasks]
    /\ hpc' = "idle"
    /\ UNCHANGED <<Frame, now, rpc, rNew, rTasks, rCount, confirmed, hTasks, alerted>>

\* a minute passes
Tick ==
    /\ now < MaxClock
    /\ now' = now + 1
    /\ UNCHANGED <<Frame, file, rpc, rNew, rTasks, rCount, confirmed, hpc, hTasks, alerted>>

InitReminder ==
    /\ skills = <<>>
    /\ DIdle
    /\ JIdle
    /\ MIdle
    /\ RIdle
    /\ AIdle
    /\ XIdle

NextReminder ==
    \/ RunStart \/ RunRead \/ RunOpenW \/ RunDump
    \/ HookRead \/ HookScan \/ HookOpenW \/ HookDump
    \/ Tick
SpecReminder == InitReminder /\ [][NextReminder]_vars

(***************************************************************************)
(* SkillArbitrator.select_skill (skill_bridge not set)                     *)
(***************************************************************************)
\* str.strip(chars)
RECURSIVE LStripChars(_, _)
LStripChars(s, chars) ==
    IF s # <<>> /\ Head(s) \in chars THEN LStripChars(Tail(s), chars) ELSE s
RECURSIVE RStripChars(_, _)
RStripChars(s, chars) ==
    IF s # <<>> /\ s[Len(s)] \in chars
    THEN RStripChars(SubSeq(s, 1, Len(s) - 1), chars) ELSE s
StripChars(s, chars) == RStripChars(LStripChars(s, chars), chars)

\* clean_input = user_input.lower().strip("?!. ")
CleanInput(user_input) == StripChars(Lower(user_input), {"?", "!", ".", " "})

\* the keywords matched as whole words, as run_skill matches them
KeywordHitWord(s, clean_input) ==
    \E k \in 1..Len(s.keywords) : WordSearch(Lower(s.keywords[k]), clean_input)

\* any(word.lower() in clean_input for word in skill["keywords"])
KeywordHit(s, clean_input) ==
    \E k \in 1..Len(s.keywords) : Contains(clean_input, Lower(s.keywords[k]))

\* s['description']: a KeyError unless the dict has the key.  The dicts
\* load_skills builds have instance, name, keywords and supported_intents.
HasDescription(s) == "description" \in DOMAIN s

\* int(choice)
DigitValue(c) == (CHOOSE i \in DOMAIN Digits : Digits[i] = c) - 1
RECURSIVE DigitsValue(_)
DigitsValue(s) ==
    IF s = <<>> THEN 0 ELSE DigitsValue(SubSeq(s, 1, Len(s) - 1)) * 10 + DigitValue(s[Len(s)])
AllDigits(s) == s # <<>> /\ \A k \in 1..Len(s) : s[k] \in Range(Digits)
ParseInt(s) ==
    IF AllDigits(s) THEN [ok |-> TRUE, value |-> DigitsValue(s)]
    ELSE IF s # <<>> /\ Head(s) \in {"-", "+"} /\ AllDigits(Tail(s))
    THEN [ok |-> TRUE,
          value |-> IF Head(s) = "-" THEN -DigitsValue(Tail(s)) ELSE DigitsValue(Tail(s))]
    ELSE [ok |-> FALSE, value |-> 0]

ArbOut(ret, calls, llm, prompt) ==
    [ret |-> ret, calls |-> calls, asked |-> [llm |-> llm, prompt |-> prompt]]

\* 7: instance.run inside try/except: an exception gives None
ExecuteSelected(s, beh, llm, prompt) ==
    LET result == SkillRun(beh, s.instance)
    IN  ArbOut(IF result.t = "raise" THEN PyNone ELSE result,
               <<CallRun(s.instance)>>, llm, prompt)

\* 5: the first candidate whose lowered name is in the lowered decision
MatchDecision(candidates, decision) ==
    LET hits == {k \in 1..Len(candidates) :
                    Contains(Lower(decision), Lower(candidates[k].name))}
    IN  IF hits = {} THEN 0 ELSE CHOOSE k \in hits : \A m \in hits : k <= m

\* 6: the interactive prompt
AskOperator(candidates, choice, beh) ==
    LET parsed == ParseInt(Strip(choice))
        idx    == parsed.value - 1
    IN  IF ~parsed.ok THEN ArbOut(PyNone, <<>>, TRUE, TRUE)
        ELSE IF 0 <= idx /\ idx < Len(candidates)
        THEN ExecuteSelected(candidates[idx + 1], beh, TRUE, TRUE)
        ELSE ArbOut(PyNone, <<>>, TRUE, TRUE)

select_skill(registry, user_input, beh, llm, choice) ==
    LET clean_input == CleanInput(user_input)
        candidates  == SelectSeq(registry, LAMBDA s : KeywordHit(s, clean_input))
    IN  IF candidates = <<>>
        THEN ArbOut(PyNone, <<>>, FALSE, FALSE)
        ELSE IF Len(candidates) = 1
        THEN ArbOut(SkillRun(beh, candidates[1].instance),
                    <<CallRun(candidates[1].instance)>>, FALSE, FALSE)
        ELSE IF \E k \in 1..Len(candidates) : ~HasDescription(candidates[k])
        THEN ArbOut(PyRaise("KeyError"), <<>>, FALSE, FALSE)
        ELSE LET decision == IF llm.t = "raise" THEN <<>> ELSE Strip(llm.v)
                 k        == MatchDecision(candidates, decision)
             IN  IF k # 0
                 THEN ExecuteSelected(candidates[k], beh, TRUE, FALSE)
                 ELSE AskOperator(candidates, choice, beh)

ArbInputs ==
    { <<"T","V"," ","c","l","o","c","k","?">>,
      <<"c","l","o","c","k","s">>,
      <<"t","v">>,
      sMail }

LlmAnswers ==
    {PyRaise("LlmError"), PyStr(<<>>)} \cup {PyStr(NamePool[i]) : i \in 1..NumSkills}

OperatorChoices == {<<"1">>, <<" ", "2">>, <<"0">>, <<"x">>}

RunBehaviours == [1..NumSkills -> {[ready |-> TRUE, out |-> o] : o \in Outcomes}]

SelectSkill ==
    /\ apc = "idle"
    /\ \E ui \in ArbInputs, beh \in RunBehaviours, llm \in LlmAnswers,
          choice \in OperatorChoices :
          LET r == select_skill(skills, ui, beh, llm, choice)
          IN  /\ aInput' = ui
              /\ aBeh' = beh
              /\ aLlm' = llm
              /\ aChoice' = choice
              /\ aCalls' = r.calls
              /\ aAsked' = r.asked
              /\ aRet' = r.ret
    /\ apc' = "returned"
    /\ UNCHANGED <<skills, xvars, dvars, jvars, mvars, rvars>>

\* The caller has taken the result; the next call may come.
NextSelect ==
    /\ apc = "returned"
    /\ apc' = "idle"
    /\ aInput' = <<>>
    /\ aBeh' = <<>>
    /\ aLlm' = PyNone
    /\ aChoice' = <<>>
    /\ aCalls' = <<>>
    /\ aAsked' = [llm |-> FALSE, prompt |-> FALSE]
    /\ aRet' = PyNone
    /\ UNCHANGED <<skills, xvars, dvars, jvars, mvars, rvars>>

InitArbitrator ==
    /\ skills \in {[i \in 1..NumSkills |-> Descriptor(i, kws[i], <<sClock>>)] :
                      kws \in [1..NumSkills -> KeywordChoices]}
    /\ DIdle
    /\ JIdle
    /\ MIdle
    /\ RIdle
    /\ AIdle
    /\ XIdle

NextArbitrator == SelectSkill \/ NextSelect
SpecArbitrator == InitArbitrator /\ [][NextArbitrator]_vars

(***************************************************************************)
(* SkillManager.load_skills                                                *)
(*                                                                         *)
(* A file either fails while it is imported or yields its Skill            *)
(* subclasses in dir(module) order; instantiating a class either raises,   *)
(* gives an instance without supported_intents, or gives a complete one.   *)
(***************************************************************************)
MaxFiles == 2
MaxClasses == 2

ClassKinds == {"raises", "no_intents", "ok"}

\* getattr(instance, "name", attr_name), one name per class
LoadName(id) == <<"S", Digits[id + 1]>>

\* the dict of lines 60-65
LoadDescriptor(id) ==
    [instance |-> id, name |-> LoadName(id), keywords |-> <<sClock>>,
     supported_intents |-> <<sClock>>]

\* lines 45-69: the classes of one module from position k on; an exception
\* of attr() leaves the loop for the except clause of the file
RECURSIVE LoadClasses(_, _, _)
LoadClasses(classes, k, registry) ==
    IF k > Len(classes) THEN [skills |-> registry, raised |-> FALSE]
    ELSE CASE classes[k].kind = "raises" -> [skills |-> registry, raised |-> TRUE]
           [] classes[k].kind = "no_intents" -> LoadClasses(classes, k + 1, registry)
           [] OTHER ->
                LoadClasses(classes, k + 1, Append(registry, LoadDescriptor(classes[k].id)))

\* lines 38-72: one file inside its try/except
LoadFile(f, registry) ==
    IF ~f.import_ok THEN [skills |-> registry, raised |-> TRUE]
    ELSE LoadClasses(f.classes, 1, registry)

\* one try/except around the whole directory walk: the first failure ends it
RECURSIVE LoadFilesAborting(_, _, _)
LoadFilesAborting(files, n, registry) ==
    IF n > Len(files) THEN registry
    ELSE LET r == LoadFile(files[n], registry)
         IN  IF r.raised THEN r.skills ELSE LoadFilesAborting(files, n + 1, r.skills)

\* lines 34-72: for file in os.listdir(self.skills_dir); the except clause
\* prints and the loop goes on with the next file
RECURSIVE LoadFiles(_, _, _)
LoadFiles(files, n, registry) ==
    IF n > Len(files) THEN registry
    ELSE LoadFiles(files, n + 1, LoadFile(files[n], registry).skills)

\* load_skills(): self.skills.clear(), then the walk; returns None
load_skills(files) == [ret |-> PyNone, skills |-> LoadFiles(files, 1, <<>>)]

\* What one file can hold: it fails to import, or it has up to MaxClasses
\* Skill subclasses.
FileShapes ==
    {[import_ok |-> FALSE, kinds |-> <<>>]} \cup
    {[import_ok |-> TRUE, kinds |-> kinds] :
        kinds \in UNION {[1..len -> ClassKinds] : len \in 0..MaxClasses}}

\* File n of the directory; its classes are numbered from (n-1)*MaxClasses+1.
FileOf(n, shape) ==
    [import_ok |-> shape.import_ok,
     classes |-> [c \in 1..Len(shape.kinds) |->
                     [id |-> (n - 1) * MaxClasses + c, kind |-> shape.kinds[c]]]]

\* The directories of `len` files.
Directories(len) ==
    {[n \in 1..len |-> FileOf(n, shapes[n])] : shapes \in [1..len -> FileShapes]}

\* SkillManager.__init__: self.skills = []
InitLoad ==
    /\ skills = <<>>
    /\ DIdle
    /\ JIdle
    /\ MIdle
    /\ RIdle
    /\ AIdle
    /\ YIdle
    /\ lpc = "new"
    /\ \E len \in 0..MaxFiles : lFiles \in Directories(len)
    /\ lRet = PyNone

LoadSkills ==
    /\ lpc = "new"
    /\ LET r == load_skills(lFiles)
       IN  /\ skills' = r.skills
           /\ lRet' = r.ret
    /\ lpc' = "loaded"
    /\ UNCHANGED <<dvars, jvars, mvars, rvars, avars, yvars, lFiles>>

NextLoad == LoadSkills
SpecLoad == InitLoad /\ [][NextLoad]_vars

(***************************************************************************)
(* The skills shipped under src/skills                                     *)
(***************************************************************************)
\* class CyberSentinel (CyberSentinel.py)
CyberSentinel ==
    [instance |-> 1,
     name |-> <<"C","y","b","e","r","S","e","n","t","i","n","e","l">>,
     keywords |->
       <<<<"s","c","a","n">>, <<"n","m","a","p">>, <<"c","a","p","t","u","r","e">>,
         <<"p","a","y","l","o","a","d">>, <<"p","o","r","t">>,
         <<"m","o","n","i","t","o","r">>, <<"a","u","d","i","t">>,
         <<"n","e","t","w","o","r","k">>, <<"s","e","c","u","r","i","t","y">>,
         <<"s","u","r","v","e","i","l","l","a","n","c","e">>>>,
     supported_intents |-> <<<<"C","y","b","e","r","S","e","n","t","i","n","e","l">>>>]

\* class CameraSkill (camera.py)
CameraSkill ==
    [instance |-> 2,
     name |-> <<"C","a","m","e","r","a","S","k","i","l","l">>,
     keywords |->
       <<<<"c","a","m","e","r","a">>,
         <<"t","a","k","e"," ","a"," ","p","i","c","t","u","r","e">>,
         <<"t","a","k","e"," ","p","i","c","t","u","r","e","s">>,
         <<"s","n","a","p","s","h","o","t">>, <<"c","a","p","t","u","r","e">>>>,
     supported_intents |-> <<<<"c","a","m","e","r","a">>>>]

\* class EcommerceScout (ecommerce_scout.py)
EcommerceScout ==
    [instance |-> 3,
     name |-> <<"E","-","C","o","m","m","e","r","c","e"," ","S","c","o","u","t">>,
     keywords |->
       <<<<"s","c","o","u","t">>, <<"t","r","a","c","k">>,
         <<"w","i","s","h","l","i","s","t">>, <<"a","d","d"," ","t","o"," ","l","i","s","t">>>>,
     supported_intents |-> <<<<"e","c","o","m","m","e","r","c","e","_","s","c","o","u","t">>>>]

\* class EmailSkill (email.py)
EmailSkill ==
    [instance |-> 4,
     name |-> <<"E","m","a","i","l","S","k","i","l","l">>,
     keywords |->
       <<<<"e","m","a","i","l">>, <<"i","n","b","o","x">>, <<"s","e","n","d">>,
         <<"m","a","i","l">>, <<"c","h","e","c","k">>>>,
     supported_intents |-> <<<<"e","m","a","i","l">>>>]

\* class FileCommander (file_commander.py)
FileCommander ==
    [instance |-> 5,
     name |-> <<"F","i","l","e"," ","C","o","m","m","a","n","d","e","r">>,
     keywords |->
       <<<<"m","o","v","e">>, <<"o","r","g","a","n","i","z","e">>,
         <<"t","r","a","n","s","f","e","r">>, <<"p","u","t">>, <<"f","i","n","d">>,
         <<"s","e","a","r","c","h">>, <<"l","o","c","a","t","e">>, <<"c","o","p","y">>,
         <<"r","e","n","a","m","e">>, <<"d","e","l","e","t","e">>, <<"l","i","s","t">>,
         <<"s","h","o","w">>>>,
     supported_intents |-> <<<<"f","i","l","e","_","c","o","m","m","a","n","d","e","r">>>>]

\* class GreetingSkill (greeting_skill.py)
GreetingSkill ==
    [instance |-> 6,
     name |-> <<"G","r","e","e","t","e","r">>,
     keywords |->
       <<<<"h","e","l","l","o">>, <<"h","i">>, <<"w","a","k","e"," ","u","p">>>>,
     supported_intents |-> <<<<"g","r","e","e","t","i","n","g","_","s","k","i","l","l">>>>]

\* class LocalLedgerSkill (local_ledger.py)
LocalLedgerSkill ==
    [instance |-> 7,
     name |-> <<"L","o","c","a","l"," ","L","e","d","g","e","r">>,
     keywords |->
       <<<<"m","o","n","e","y">>, <<"b","a","l","a","n","c","e">>, <<"s","p","e","n","t">>,
         <<"r","e","c","e","i","v","e","d">>, <<"a","d","d">>, <<"p","a","y">>>>,
     supported_intents |-> <<<<"l","o","c","a","l","_","l","e","d","g","e","r">>>>]

\* class LocationSkill (location_skill.py)
LocationSkill ==
    [instance |-> 8,
     name |-> <<"L","o","c","a","t","i","o","n"," ","S","e","n","t","i","n","e","l">>,
     keywords |->
       <<<<"w","h","e","r","e"," ","a","m"," ","i">>,
         <<"c","u","r","r","e","n","t"," ","l","o","c","a","t","i","o","n">>,
         <<"u","p","d","a","t","e"," ","l","o","c","a","t","i","o","n">>>>,
     supported_intents |-> <<<<"l","o","c","a","t","i","o","n","_","s","k","i","l","l">>>>]

\* class MusicSkill (music_skill.py)
MusicSkill ==
    [instance |-> 9,
     name |-> <<"M","u","s","i","c","S","k","i","l","l">>,
     keywords |->
       <<<<"p","l","a","y">>, <<"m","u","s","i","c">>, <<"s","o","n","g">>,
         <<"s","t","o","p">>, <<"v","o","l","u","m","e">>, <<"n","e","x","t">>,
         <<"q","u","e","u","e">>, <<"a","d","d">>, <<"v","i","d","e","o">>,
         <<"r","a","d","i","o">>, <<"c","o","n","t","i","n","u","e">>,
         <<"b","a","c","k","g","r","o","u","n","d">>, <<"p","a","u","s","e">>,
         <<"r","e","s","u","m","e">>, <<"s","k","i","p">>, <<"g","e","n","r","e">>,
         <<"s","t","a","t","i","o","n">>>>,
     supported_intents |-> <<<<"m","u","s","i","c","_","s","k","i","l","l">>>>]

\* class ReminderSkill (reminder_skill.py)
ReminderSkill ==
    [instance |-> 10,
     name |-> <<"R","e","m","i","n","d","e","r"," ","S","k","i","l","l">>,
     keywords |->
       <<<<"r","e","m","i","n","d">>, <<"r","e","m","i","n","d","e","r">>,
         <<"t","a","s","k">>, <<"t","o","d","o">>>>,
     supported_intents |-> <<<<"r","e","m","i","n","d","e","r","_","s","k","i","l","l">>>>]

\* class WebResearcher (researcher_skill.py)
WebResearcher ==
    [instance |-> 11,
     name |-> <<"W","e","b"," ","R","e","s","e","a","r","c","h","e","r">>,
     keywords |->
       <<<<"s","u","m","m","a","r","i","z","e">>, <<"r","e","s","e","a","r","c","h">>,
         <<"n","e","w","s">>,
         <<"w","h","a","t","'","s"," ","h","a","p","p","e","n","i","n","g">>,
         <<"a","r","t","i","c","l","e">>>>,
     supported_intents |-> <<<<"r","e","s","e","a","r","c","h","e","r","_","s","k","i","l","l">>>>]

\* class WifiScanSkill (scan_wifi.py)
WifiScanSkill ==
    [instance |-> 12,
     name |-> <<"W","i","F","i"," ","S","c","a","n","n","e","r">>,
     keywords |->
       <<<<"s","c","a","n"," ","w","i","f","i">>,
         <<"n","e","t","w","o","r","k"," ","s","c","a","n">>,
         <<"w","h","o"," ","i","s"," ","o","n"," ","m","y"," ","n","e","t","w","o","r","k">>,
         <<"l","i","s","t"," ","d","e","v","i","c","e","s">>,
         <<"n","e","t","w","o","r","k"," ","m","a","p">>,
         <<"f","i","n","d"," ","d","e","v","i","c","e","s">>,
         <<"c","o","n","n","e","c","t","e","d"," ","d","e","v","i","c","e","s">>,
         <<"w","i","f","i"," ","d","e","v","i","c","e","s">>>>,
     supported_intents |-> <<<<"s","c","a","n","_","w","i","f","i">>>>]

\* class SmartHome (smart_home.py)
SmartHome ==
    [instance |-> 13,
     name |-> <<"S","m","a","r","t"," ","H","o","m","e">>,
     keywords |->
       <<<<"s","m","a","r","t">>, <<"h","o","m","e">>, <<"d","e","v","i","c","e">>,
         <<"t","v">>, <<"l","i","g","h","t","s">>, <<"p","l","u","g">>,
         <<"s","p","e","a","k","e","r">>, <<"t","h","e","r","m","o","s","t","a","t">>,
         <<"c","a","m","e","r","a">>, <<"t","u","r","n"," ","o","n">>,
         <<"t","u","r","n"," ","o","f","f">>, <<"v","o","l","u","m","e">>,
         <<"b","r","i","g","h","t","n","e","s","s">>, <<"c","o","l","o","r">>,
         <<"s","c","a","n">>, <<"d","i","s","c","o","v","e","r">>,
         <<"c","o","n","t","r","o","l">>, <<"a","u","t","o","m","a","t","i","o","n">>,
         <<"s","c","e","n","e">>, <<"r","o","u","t","i","n","e">>,
         <<"l","i","v","i","n","g"," ","r","o","o","m">>, <<"b","e","d","r","o","o","m">>,
         <<"k","i","t","c","h","e","n">>>>,
     supported_intents |-> <<<<"s","m","a","r","t","_","h","o","m","e">>>>]

\* class OSINTSkill (social_osnit.py)
OSINTSkill ==
    [instance |-> 14,
     name |-> <<"O","S","I","N","T"," ","I","n","v","e","s","t","i","g","a","t","o","r">>,
     keywords |->
       <<<<"f","i","n","d">>, <<"s","e","a","r","c","h"," ","f","o","r">>,
         <<"l","o","o","k"," ","u","p">>, <<"w","h","o"," ","i","s">>,
         <<"i","n","v","e","s","t","i","g","a","t","e">>,
         <<"b","a","c","k","g","r","o","u","n","d"," ","c","h","e","c","k">>,
         <<"o","s","i","n","t">>, <<"p","r","o","f","i","l","e">>,
         <<"d","o","s","s","i","e","r">>, <<"s","o","c","i","a","l"," ","m","e","d","i","a">>,
         <<"r","e","s","e","a","r","c","h">>, <<"i","n","f","o","r","m","a","t","i","o","n">>,
         <<"p","e","r","s","o","n"," ","s","e","a","r","c","h">>,
         <<"c","o","m","p","a","n","y"," ","s","e","a","r","c","h">>>>,
     supported_intents |-> <<<<"o","s","i","n","t","_","i","n","v","e","s","t","i","g","a","t","o","r">>>>]

\* class SystemSentinel (system_sentinel.py)
SystemSentinel ==
    [instance |-> 15,
     name |-> <<"S","y","s","t","e","m"," ","S","e","n","t","i","n","e","l">>,
     keywords |->
       <<<<"s","t","a","t","u","s">>, <<"h","o","w"," ","a","r","e"," ","y","o","u">>,
         <<"s","y","s","t","e","m">>, <<"h","e","a","l","t","h">>,
         <<"b","a","t","t","e","r","y">>>>,
     supported_intents |-> <<<<"s","y","s","t","e","m","_","s","e","n","t","i","n","e","l">>>>]

\* class TimeSkill (time_skill.py)
TimeSkill ==
    [instance |-> 16,
     name |-> <<"C","l","o","c","k">>,
     keywords |->
       <<<<"t","i","m","e">>, <<"c","l","o","c","k">>, <<"h","o","u","r">>,
         <<"t","i","m","e","z","o","n","e">>>>,
     supported_intents |-> <<<<"t","i","m","e","_","s","k","i","l","l">>>>]

\* class WeatherSentinel (weather.py)
WeatherSentinel ==
    [instance |-> 17,
     name |-> <<"W","e","a","t","h","e","r"," ","S","e","n","t","i","n","e","l">>,
     keywords |->
       <<<<"w","e","a","t","h","e","r">>, <<"f","o","r","e","c","a","s","t">>,
         <<"w","h","e","r","e"," ","a","m"," ","i">>, <<"s","k","y"," ","c","h","e","c","k">>>>,
     supported_intents |-> <<<<"w","e","a","t","h","e","r">>>>]

\* self.skills after load_skills has registered every shipped class that
\* declares supported_intents, the files taken in sorted order.
ShippedSkills ==
    <<CyberSentinel, CameraSkill, EcommerceScout, EmailSkill, FileCommander, GreetingSkill,
      LocalLedgerSkill, LocationSkill, MusicSkill, ReminderSkill, WebResearcher,
      WifiScanSkill, SmartHome, OSINTSkill, SystemSentinel, TimeSkill, WeatherSentinel>>

(***************************************************************************)
(* CrystalBrain: the intent map, Memory and the guard                      *)
(***************************************************************************)
\* for intent in intents: mapping[intent.lower()] = skill_info.get("name")
RECURSIVE MapIntents(_, _, _, _)
MapIntents(mapping, intents, k, name) ==
    IF k > Len(intents) THEN mapping
    ELSE LET key == Lower(intents[k])
         IN  MapIntents([x \in (DOMAIN mapping) \cup {key} |->
                            IF x = key THEN name ELSE mapping[x]],
                        intents, k + 1, name)

\* for skill_info in self.skill_manager.skills: ...
RECURSIVE MapSkills(_, _, _)
MapSkills(mapping, registry, n) ==
    IF n > Len(registry) THEN mapping
    ELSE MapSkills(MapIntents(mapping, registry[n].supported_intents, 1, registry[n].name),
                   registry, n + 1)

\* _build_intent_skill_map: a dict from lower-cased intents to skill names
build_intent_skill_map(registry) == MapSkills(<<>>, registry, 1)

\* the map keyed by the intents as the skills spell them
MapIntentCased(mapping, intent_name) ==
    IF intent_name \in DOMAIN mapping THEN PyStr(mapping[intent_name]) ELSE PyNone

\* _map_intent_to_skill: self.intent_skill_map.get(intent_name.lower())
map_intent_to_skill(mapping, intent_name) ==
    IF Lower(intent_name) \in DOMAIN mapping
    THEN PyStr(mapping[Lower(intent_name)])
    ELSE PyNone

\* the truth value of None or a str
Truthy(v) == v # PyNone /\ v.v # <<>>

\* Memory(max_turns=20)
max_turns == 20

\* history[-n:]
LastN(h, n) == IF Len(h) <= n THEN h ELSE SubSeq(h, Len(h) - n + 1, Len(h))

\* Memory.add (the timestamp is left out)
MemoryAdd(h, role, text, entities) ==
    LastN(Append(h, [role |-> role, content |-> text, entities |-> entities]), max_turns)

\* text.split()
RECURSIVE DropWord(_)
DropWord(s) == IF s = <<>> \/ IsSpace(Head(s)) THEN s ELSE DropWord(Tail(s))
RECURSIVE SplitWords(_)
SplitWords(s) ==
    LET t == LStrip(s)
    IN  IF t = <<>> THEN <<>> ELSE <<TakeWord(t)>> \o SplitWords(DropWord(t))

\* _extract_entities, as the values found.  The two re.findall calls (URLs,
\* media names) find nothing in a text without "http" and without a media
\* name; the words with a capital initial and more than two letters remain.
extract_entities(text) ==
    SelectSeq(SplitWords(text), LAMBDA w : w[1] \in Range(UpperAlphabet) /\ Len(w) > 2)

\* get_recent_entities(): newest entry first, no value twice, at most
\* `limit` values
entity_limit == 10
RECURSIVE AddNew(_, _)
AddNew(found, values) ==
    IF values = <<>> THEN found
    ELSE AddNew(IF InList(Head(values), found) THEN found ELSE Append(found, Head(values)),
                Tail(values))
RECURSIVE RecentFrom(_, _, _)
RecentFrom(h, n, found) ==
    IF n < 1 THEN found
    ELSE LET f == AddNew(found, h[n].entities)
         IN  IF Len(f) >= entity_limit THEN f ELSE RecentFrom(h, n - 1, f)
get_recent_entities(h) ==
    LET found == RecentFrom(h, Len(h), <<>>)
    IN  SubSeq(found, 1, IF Len(found) < entity_limit THEN Len(found) ELSE entity_limit)

\* Memory.query_entities
query_entities(h, query_text) ==
    LET lower  == Lower(query_text)
        recent == get_recent_entities(h)
    IN  IF Contains(lower, <<"w","h","o"," ","d","i","d"," ","i"," ","a","s","k">>)
           \/ Contains(lower, <<"w","h","a","t"," ","d","i","d"," ","i"," ","a","s","k">>)
        THEN IF recent # <<>>
             THEN <<"You recently asked about: ">> \o Join(<<",", " ">>, recent)
             ELSE <<"You haven't asked me about anyone or anything recently.">>
        ELSE <<>>

\* guard.classify_intent(text) == Intent.INSTRUCTION
Greetings == {<<"h","i">>, <<"h","e","l","l","o">>, <<"h","e","y">>, <<"y","o">>}
InstructionMarks ==
    {<<"r","e","s","p","o","n","d"," ","w","i","t","h">>,
     <<"a","n","s","w","e","r"," ","w","i","t","h">>,
     <<"o","n","l","y">>,
     <<"e","x","a","c","t","l","y">>}
IsGreeting(text_l) ==
    \E g \in Greetings :
        /\ Len(g) <= Len(text_l)
        /\ SubSeq(text_l, 1, Len(g)) = g
        /\ Boundary(text_l, Len(g))
IsInstruction(text) ==
    LET text_l == Strip(Lower(text))
    IN  ~IsGreeting(text_l) /\ \E k \in InstructionMarks : Contains(text_l, k)

\* guard.extract_instruction: re.search(r"respond with (\d+) words?", text.lower())
RECURSIVE DigitRun(_)
DigitRun(s) ==
    IF s # <<>> /\ Head(s) \in Range(Digits) THEN <<Head(s)>> \o DigitRun(Tail(s)) ELSE <<>>
RespondWith == <<"r","e","s","p","o","n","d"," ","w","i","t","h"," ">>
InstructionAt(t, p) ==
    LET after == SubSeq(t, p + Len(RespondWith) + 1, Len(t))
        digits == DigitRun(after)
        tail == SubSeq(after, Len(digits) + 1, Len(after))
    IN  /\ p + Len(RespondWith) <= Len(t)
        /\ SubSeq(t, p + 1, p + Len(RespondWith)) = RespondWith
        /\ digits # <<>>
        /\ Len(tail) >= 5
        /\ SubSeq(tail, 1, 5) = <<" ","w","o","r","d">>
extract_instruction(text) ==
    LET t == Lower(text)
        at == {p \in 0..Len(t) : InstructionAt(t, p)}
    IN  IF at = {} THEN PyNone
        ELSE LET p == MinOf(at)
             IN  [t |-> "int",
                  v |-> DigitsValue(DigitRun(SubSeq(t, p + Len(RespondWith) + 1, Len(t))))]

\* build_prompt(user_input)["rules"]["max_words"]
max_words(user_input) ==
    IF IsInstruction(user_input) THEN extract_instruction(user_input) ELSE PyNone

\* guard.word_count
word_count(text) == Len(SplitWords(text))

\* guard.violates_length
violates_length(text, limit) == limit # PyNone /\ word_count(text) # limit.v

\* guard.violates_persona
Banned == {<<"a","s"," ","a","n"," ","a","i">>, <<"i"," ","c","a","n","n","o","t">>, <<"i","'","m"," ","j","u","s","t">>}
violates_persona(text) == \E b \in Banned : Contains(Lower(text), b)

\* guard.judge(output, rules) == Judgment.FAIL
judge_fails(output, limit) == violates_length(output, limit) \/ violates_persona(output)

\* str.replace(f, "")
RECURSIVE Remove(_, _)
Remove(text, f) ==
    IF Len(text) < Len(f) THEN text
    ELSE IF SubSeq(text, 1, Len(f)) = f THEN Remove(SubSeq(text, Len(f) + 1, Len(text)), f)
    ELSE <<Head(text)>> \o Remove(Tail(text), f)

\* guard.enforce: the second definition of the name is the one bound
Forbidden == <<<<"*">>, <<".",".",".">>, <<"p","a","u","s","e","s">>, <<"w","a","t","c","h","i","n","g">>, <<"s","m","i","l","e","s">>>>
RECURSIVE RemoveEach(_, _)
RemoveEach(text, fs) ==
    IF fs = <<>> THEN text ELSE RemoveEach(Remove(text, Head(fs)), Tail(fs))
enforce(text) == Strip(RemoveEach(text, Forbidden))

(***************************************************************************)
(* CrystalBrain.process                                                    *)
(***************************************************************************)
\* mapped.startswith("skill:")
StartsWith(text, prefix) ==
    Len(prefix) <= Len(text) /\ SubSeq(text, 1, Len(prefix)) = prefix

\* _check_custom_commands.  `commands` is what core/custom_commands.json
\* holds: PyNone when the file does not exist, "garbled" when json.load
\* raises, else the dict.  Every exception is caught and gives None.
check_custom_commands(registry, commands, text, beh) ==
    LET trigger == Strip(Lower(text))
    IN  IF commands = PyNone \/ commands.t = "garbled" \/ trigger \notin DOMAIN commands.v
        THEN [ret |-> PyNone, calls |-> <<>>]
        ELSE LET mapped == commands.v[trigger]
             IN  IF StartsWith(mapped, <<"s","k","i","l","l",":">>)
                 THEN LET r == run_skill(registry, trigger, PyNone, beh)
                      IN  [ret |-> IF r.ret.t = "raise" THEN PyNone ELSE r.ret,
                           calls |-> r.calls]
                 ELSE [ret |-> PyStr(mapped), calls |-> <<>>]

\* intent_name.replace('_', ' ')
Spaced(name) == [k \in 1..Len(name) |-> IF name[k] = "_" THEN " " ELSE name[k]]

ReplyClarify(candidates) ==
    <<"I detected multiple possible commands: ">> \o Join(<<",", " ">>, candidates)
        \o <<". Which one should I run?">>
ReplyConfirm(intent_name) ==
    <<"Did you want me to run the '">> \o Spaced(intent_name) \o <<"' command?">>
CommandExecuted == <<"C","o","m","m","a","n","d"," ","e","x","e","c","u","t","e","d",".">>
NoSkillIsMapped ==
    <<"I","n","t","e","n","t"," ","r","e","c","o","g","n","i","z","e","d"," ","b","u","t"," ">>
        \o <<"n","o"," ","s","k","i","l","l"," ","i","s"," ","m","a","p","p","e","d",".">>

\* if final and len(final) < 500: self.memory.add("assistant", final)
memory_limit == 500

\* lines 237-255: guard enforcement, memory write, return
Finish(final, limit, h) ==
    LET guarded == IF judge_fails(final, limit) THEN enforce(final) ELSE final
    IN  [final |-> PyStr(guarded),
         history |-> IF guarded # <<>> /\ Len(guarded) < memory_limit
                     THEN MemoryAdd(h, "assistant", guarded, <<>>) ELSE h]

\* lines 129-159: entity extraction, memory recall, guard, custom commands.
\* `next` is where process goes on: "returned" when it has returned.
process_receive(registry, h, user_text, commands, beh) ==
    LET entities == extract_entities(user_text)
        h1 == MemoryAdd(h, "user", user_text, entities)
        recall == query_entities(h1, user_text)
        custom == check_custom_commands(registry, commands, user_text, beh)
    IN  IF recall # <<>>
        THEN [next |-> "returned", final |-> PyStr(recall), calls |-> <<>>,
              history |-> MemoryAdd(h1, "assistant", recall, <<>>)]
        ELSE IF Truthy(custom.ret)
        THEN [next |-> "returned", final |-> custom.ret, calls |-> custom.calls,
              history |-> MemoryAdd(h1, "assistant", custom.ret.v, <<>>)]
        ELSE [next |-> "detect", final |-> PyNone, calls |-> custom.calls, history |-> h1]

\* lines 161-189: intent detection, the clarify and confirm replies.  `sims`
\* and `encode_ok` are what the sentence model does in detect_intent; an
\* exception of detect_intent leaves process.
process_detect(h, user_text, sims, encode_ok) ==
    LET intent_result == detect_intent(user_text, IntentNames, sims, encode_ok)
        action == intent_result.action
        intent_name == IF "intent" \in DOMAIN intent_result
                       THEN PyStr(intent_result.intent) ELSE PyNone
    IN  IF "exc" \in DOMAIN intent_result
        THEN [next |-> "returned", final |-> intent_result, result |-> PyNone,
              history |-> h]
        ELSE IF action = "clarify"
        THEN LET reply == ReplyClarify(IF "candidates" \in DOMAIN intent_result
                                       THEN intent_result.candidates ELSE <<>>)
             IN  [next |-> "returned", final |-> PyStr(reply), result |-> intent_result,
                  history |-> MemoryAdd(h, "assistant", reply, <<>>)]
        ELSE IF action = "confirm"
        THEN LET reply == ReplyConfirm(intent_name.v)
             IN  [next |-> "returned", final |-> PyStr(reply), result |-> intent_result,
                  history |-> MemoryAdd(h, "assistant", reply, <<>>)]
        ELSE [next |-> IF action = "execute" /\ Truthy(intent_name)
                       THEN "execute" ELSE "fallback",
              final |-> PyNone, result |-> intent_result, history |-> h]

\* lines 195-217 and 237-255: the execute branch, to the return.  An
\* exception of run_skill leaves process.
process_execute(registry, mapping, h, user_text, intent_result, beh) ==
    LET skill_name == map_intent_to_skill(mapping, intent_result.intent)
        r == run_skill(registry, user_text, intent_result, beh)
        limit == max_words(user_text)
    IN  IF ~Truthy(skill_name)
        THEN Finish(NoSkillIsMapped, limit, h)
                 @@ [skill_name |-> skill_name, output |-> PyNone, calls |-> <<>>]
        ELSE IF r.ret.t = "raise"
        THEN [final |-> r.ret, history |-> h, skill_name |-> skill_name,
              output |-> r.ret, calls |-> r.calls]
        ELSE Finish(IF Truthy(r.ret) THEN r.ret.v ELSE CommandExecuted, limit, h)
                 @@ [skill_name |-> skill_name, output |-> r.ret, calls |-> r.calls]

\* lines 219-255: the LLM fallback, to the return.  `llm` is what
\* generate_response returns (it catches its own exceptions).
process_fallback(h, user_text, llm) == Finish(llm, max_words(user_text), h)

(***************************************************************************)
(* process applied to bounded inputs                                       *)
(***************************************************************************)
sPlayMusic == <<"p","l","a","y"," ","m","u","s","i","c">>
sWhatTime == <<"w","h","a","t"," ","t","i","m","e">>

BrainTexts ==
    { sPlayMusic,
      sWhatTime,
      <<"o","n","l","y"," ","o","p","e","n"," ","T","v">>,
      <<"W","h","o"," ","d","i","d"," ","I"," ","a","s","k">> }

CommandFiles ==
    { PyNone,
      [t |-> "garbled"],
      [t |-> "dict",
       v |-> (sPlayMusic :> <<"s","k","i","l","l",":","m","u","s","i","c">>)
                 @@ (sWhatTime :> <<"I","t"," ","i","s"," ","l","a","t","e",".">>)] }

LlmReplies ==
    { <<"o","k">>,
      <<"*","s","m","i","l","e","s","*"," ","A","s"," ","a","n"," ","A","I",".",".",".">> }

\* One skill that spells its intent `spelling`, and a second one.
ClockRegistry(spelling) ==
    <<[instance |-> 1, name |-> sClockName, keywords |-> <<sClock>>,
       supported_intents |-> <<spelling>>],
      [instance |-> 2, name |-> sTvName, keywords |-> <<sTv>>,
       supported_intents |-> <<sTv>>]>>

BrainRegistries == {ShippedSkills, ClockRegistry(sClock), ClockRegistry(sClockName)}

\* Every instance of the registry behaves alike in one call.
BrainBehaviours(registry) == {[i \in 1..Len(registry) |-> b] : b \in Behaviour}

\* The similarity table: intent `hot` scores top, its successor in INTENTS
\* scores second, every other intent scores 0.2.
BrainSims(hot, top, second) ==
    [k \in 1..Len(IntentNames) |->
        IF k = hot THEN {top}
        ELSE IF k = (hot % Len(IntentNames)) + 1 THEN {second} ELSE {2000}]

Histories ==
    { <<>>,
      <<[role |-> "user", content |-> <<"o","p","e","n"," ","T","v">>, entities |-> <<<<"T","v">>>>]>> }

\* CrystalBrain.__init__ has run: the map is built from the loaded skills.
InitBrain ==
    /\ skills \in BrainRegistries
    /\ DIdle
    /\ JIdle
    /\ MIdle
    /\ RIdle
    /\ AIdle
    /\ LIdle
    /\ GIdle
    /\ TIdle
    /\ intent_skill_map = build_intent_skill_map(skills)
    /\ history \in Histories
    /\ bpc = "idle"
    /\ bText = <<>>
    /\ bResult = PyNone
    /\ bSkillName = PyNone
    /\ bOutput = PyNone
    /\ bCalls = <<>>
    /\ bFinal = PyNone

BrainFrame ==
    <<skills, dvars, jvars, mvars, rvars, avars, lvars, gvars, tvars, intent_skill_map>>

ProcessReceive ==
    /\ bpc = "idle"
    /\ \E text \in BrainTexts, commands \in CommandFiles, beh \in BrainBehaviours(skills) :
          LET r == process_receive(skills, history, text, commands, beh)
          IN  /\ bText' = text
              /\ history' = r.history
              /\ bCalls' = r.calls
              /\ bFinal' = r.final
              /\ bpc' = r.next
    /\ UNCHANGED <<BrainFrame, bResult, bSkillName, bOutput>>

ProcessDetect ==
    /\ bpc = "detect"
    /\ \E hot \in 1..Len(IntentNames), top \in ScoreValues, encode_ok \in BOOLEAN :
       \E second \in {2000, top} :
          LET r == process_detect(history, bText, BrainSims(hot, top, second), encode_ok)
          IN  /\ history' = r.history
              /\ bResult' = r.result
              /\ bFinal' = r.final
              /\ bpc' = r.next
    /\ UNCHANGED <<BrainFrame, bText, bSkillName, bOutput, bCalls>>

ProcessExecute ==
    /\ bpc = "execute"
    /\ \E beh \in BrainBehaviours(skills) :
          LET r == process_execute(skills, intent_skill_map, history, bText, bResult, beh)
          IN  /\ history' = r.history
              /\ bSkillName' = r.skill_name
              /\ bOutput' = r.output
              /\ bCalls' = bCalls \o r.calls
              /\ bFinal' = r.final
    /\ bpc' = "returned"
    /\ UNCHANGED <<BrainFrame, bText, bResult>>

ProcessFallback ==
    /\ bpc = "fallback"
    /\ \E llm \in LlmReplies :
          LET r == process_fallback(history, bText, llm)
          IN  /\ history' = r.history
              /\ bFinal' = r.final
    /\ bpc' = "returned"
    /\ UNCHANGED <<BrainFrame, bText, bResult, bSkillName, bOutput, bCalls>>

NextBrain == ProcessReceive \/ ProcessDetect \/ ProcessExecute \/ ProcessFallback
SpecBrain == InitBrain /\ [][NextBrain]_vars

(***************************************************************************)
(* SkillBridge                                                             *)
(***************************************************************************)
\* _load_skill_keywords: the dict as its items in insertion order.  The
\* names of a registry are distinct, so no entry overwrites another.
load_skill_keywords(registry) ==
    LET kept == SelectSeq(registry, LAMBDA sd : sd.name # <<>> /\ sd.keywords # <<>>)
    IN  [n \in 1..Len(kept) |->
            [name |-> kept[n].name,
             keywords |-> [k \in 1..Len(kept[n].keywords) |-> Lower(kept[n].keywords[k])]]]

\* f" {keyword} " in f" {user_input_lower} "
SpacedMatch(keyword, user_input_lower) ==
    Contains(<<" ">> \o user_input_lower \o <<" ">>, <<" ">> \o keyword \o <<" ">>)

\* the score of one keyword: 1 for a substring match, 2 more for a word match
KeywordScore(keyword, user_input_lower) ==
    IF ~Contains(user_input_lower, keyword) THEN 0
    ELSE IF SpacedMatch(keyword, user_input_lower) THEN 3 ELSE 1

RECURSIVE SumScores(_, _, _)
SumScores(keywords, k, user_input_lower) ==
    IF k > Len(keywords) THEN 0
    ELSE KeywordScore(keywords[k], user_input_lower)
             + SumScores(keywords, k + 1, user_input_lower)

\* lines 35-47: [best_score, best_skill] after the loop; a later skill
\* replaces the best one only with a strictly greater score
RECURSIVE BestLoop(_, _, _, _)
BestLoop(index, n, user_input_lower, best) ==
    IF n > Len(index) THEN best
    ELSE LET score == SumScores(index[n].keywords, 1, user_input_lower)
         IN  BestLoop(index, n + 1, user_input_lower,
                      IF score > best.score
                      THEN [score |-> score, skill |-> PyStr(index[n].name)]
                      ELSE best)

strong_triggers ==
    {<<"w","e","a","t","h","e","r">>,
     <<"n","e","w","s">>,
     <<"e","m","a","i","l">>,
     <<"r","e","m","i","n","d","e","r">>,
     <<"o","s","i","n","t">>,
     <<"s","e","a","r","c","h">>}

\* lines 56-58: the first skill with a strong trigger found in the input
StrongLoop(index, user_input_lower) ==
    LET hits == {n \in 1..Len(index) :
                    \E k \in 1..Len(index[n].keywords) :
                        /\ index[n].keywords[k] \in strong_triggers
                        /\ Contains(user_input_lower, index[n].keywords[k])}
    IN  IF hits = {} THEN PyNone
        ELSE PyStr(index[CHOOSE a \in hits : \A b \in hits : a <= b].name)

\* _find_skill_by_keywords
find_skill_by_keywords(index, user_input) ==
    LET user_input_lower == Lower(user_input)
        best == BestLoop(index, 1, user_input_lower, [score |-> 0, skill |-> PyNone])
    IN  IF best.score >= 2 THEN best.skill
        ELSE IF best.score = 1 THEN StrongLoop(index, user_input_lower)
        ELSE PyNone

\* try_run: run_skill is called with the input alone; its exceptions are
\* caught and give None
try_run(registry, index, user_input, beh) ==
    LET skill_name == find_skill_by_keywords(index, user_input)
        r == run_skill(registry, user_input, PyNone, beh)
    IN  IF Truthy(skill_name)
        THEN [selected |-> skill_name, calls |-> r.calls,
              ret |-> IF r.ret.t = "raise" THEN PyNone ELSE r.ret]
        ELSE [selected |-> skill_name, calls |-> <<>>, ret |-> PyNone]

(***************************************************************************)
(* try_run applied to bounded inputs                                       *)
(***************************************************************************)
sNews == <<"n","e","w","s">>

BridgeKeywords == {<<sTv>>, <<sTv, sClock>>, <<sNews>>}

BridgeRegistries ==
    {[i \in 1..NumSkills |-> Descriptor(i, kws[i], <<sClock>>)] :
        kws \in [1..NumSkills -> BridgeKeywords]}

BridgeInputs ==
    { <<"t","v"," ","o","n">>,
      sTvName,
      sClockName,
      <<"n","e","w","s","r","o","o","m">>,
      sMail }

\* SkillBridge.__init__ has run: the keywords of the loaded skills are indexed.
InitBridge ==
    /\ skills \in BridgeRegistries
    /\ DIdle
    /\ JIdle
    /\ MIdle
    /\ RIdle
    /\ AIdle
    /\ LIdle
    /\ BIdle
    /\ TIdle
    /\ skill_keywords = load_skill_keywords(skills)
    /\ gpc = "idle"
    /\ gInput = <<>>
    /\ gBeh = <<>>
    /\ gSelected = PyNone
    /\ gCalls = <<>>
    /\ gRet = PyNone

BridgeFrame ==
    <<skills, dvars, jvars, mvars, rvars, avars, lvars, bvars, tvars, skill_keywords>>

TryRun ==
    /\ gpc = "idle"
    /\ \E ui \in BridgeInputs, beh \in Behaviours :
          LET r == try_run(skills, skill_keywords, ui, beh)
          IN  /\ gInput' = ui
              /\ gBeh' = beh
              /\ gSelected' = r.selected
              /\ gCalls' = r.calls
              /\ gRet' = r.ret
    /\ gpc' = "returned"
    /\ UNCHANGED BridgeFrame

\* The caller has taken the result; the next input may come.
BridgeNext ==
    /\ gpc = "returned"
    /\ gpc' = "idle"
    /\ gInput' = <<>>
    /\ gBeh' = <<>>
    /\ gSelected' = PyNone
    /\ gCalls' = <<>>
    /\ gRet' = PyNone
    /\ UNCHANGED BridgeFrame

NextBridge == TryRun \/ BridgeNext
SpecBridge == InitBridge /\ [][NextBridge]_vars

(***************************************************************************)
(* tts_bridge: speak threads and stop_speaking                             *)
(***************************************************************************)
MaxSpeakers == 2
MaxStops == 1

Speakers == 1..MaxSpeakers

\* the engine pyttsx3.init() hands to thread t
Engine(t) == [t |-> "engine", id |-> t]

TtsFrame == <<skills, dvars, jvars, mvars, rvars, avars, lvars, bvars, gvars>>

\* speak(text): threading.Thread(target=run, daemon=True).start()
Speak(t) ==
    /\ tpc[t] = "new"
    /\ tpc' = [tpc EXCEPT ![t] = "acquire"]
    /\ UNCHANGED <<TtsFrame, current_engine, engine_lock, spc, sCount, interrupted>>

\* with _engine_lock: (entered once the lock is free)
Acquire(t) ==
    /\ tpc[t] = "acquire"
    /\ engine_lock = {}
    /\ engine_lock' = {t}
    /\ tpc' = [tpc EXCEPT ![t] = "init"]
    /\ UNCHANGED <<TtsFrame, current_engine, spc, sCount, interrupted>>

\* An exception inside the with block: the lock is released on the way to
\* the handler, the handler has not run yet.
Raise(t) ==
    /\ engine_lock' = engine_lock \ {t}
    /\ tpc' = [tpc EXCEPT ![t] = "except"]

\* engine = pyttsx3.init(): returns or raises
EngineInit(t) ==
    /\ tpc[t] = "init"
    /\ \/ /\ tpc' = [tpc EXCEPT ![t] = "assign"]
          /\ UNCHANGED engine_lock
       \/ Raise(t)
    /\ UNCHANGED <<TtsFrame, current_engine, spc, sCount, interrupted>>

\* _current_engine = engine
Assign(t) ==
    /\ tpc[t] = "assign"
    /\ current_engine' = Engine(t)
    /\ tpc' = [tpc EXCEPT ![t] = "setup"]
    /\ UNCHANGED <<TtsFrame, engine_lock, spc, sCount, interrupted>>

\* lines 29-45, up to the utterance being under way in runAndWait(); the
\* engine calls return or raise
Setup(t) ==
    /\ tpc[t] = "setup"
    /\ \/ /\ tpc' = [tpc EXCEPT ![t] = "speaking"]
          /\ UNCHANGED engine_lock
       \/ Raise(t)
    /\ UNCHANGED <<TtsFrame, current_engine, spc, sCount, interrupted>>

\* engine.runAndWait() returns at the end of the utterance, or raises
RunAndWait(t) ==
    /\ tpc[t] = "speaking"
    /\ \/ /\ tpc' = [tpc EXCEPT ![t] = "reset"]
          /\ UNCHANGED engine_lock
       \/ Raise(t)
    /\ UNCHANGED <<TtsFrame, current_engine, spc, sCount, interrupted>>

\* _current_engine = None  # Reset after finishing
Reset(t) ==
    /\ tpc[t] = "reset"
    /\ current_engine' = PyNone
    /\ tpc' = [tpc EXCEPT ![t] = "release"]
    /\ UNCHANGED <<TtsFrame, engine_lock, spc, sCount, interrupted>>

\* the end of the with block
Release(t) ==
    /\ tpc[t] = "release"
    /\ engine_lock' = engine_lock \ {t}
    /\ tpc' = [tpc EXCEPT ![t] = "done"]
    /\ UNCHANGED <<TtsFrame, current_engine, spc, sCount, interrupted>>

\* except Exception as e: print(...); _current_engine = None
Handler(t) ==
    /\ tpc[t] = "except"
    /\ current_engine' = PyNone
    /\ tpc' = [tpc EXCEPT ![t] = "done"]
    /\ UNCHANGED <<TtsFrame, engine_lock, spc, sCount, interrupted>>

\* stop_speaking, line 11: if _current_engine:
StopTest ==
    /\ spc = "idle"
    /\ sCount < MaxStops
    /\ sCount' = sCount + 1
    /\ spc' = IF current_engine # PyNone THEN "call" ELSE "idle"
    /\ UNCHANGED <<TtsFrame, current_engine, engine_lock, tpc, interrupted>>

\* stop_speaking, lines 12-15: _current_engine.stop().  The global is read
\* again: when it is None by now the AttributeError is caught.  stop() ends
\* the utterance its engine is speaking: that thread's runAndWait returns.
StopCall ==
    /\ spc = "call"
    /\ spc' = "idle"
    /\ IF current_engine # PyNone /\ tpc[current_engine.id] = "speaking"
       THEN /\ tpc' = [tpc EXCEPT ![current_engine.id] = "reset"]
            /\ interrupted' = interrupted \cup {current_engine.id}
       ELSE UNCHANGED <<tpc, interrupted>>
    /\ UNCHANGED <<TtsFrame, current_engine, engine_lock, sCount>>

\* The module is imported: no engine, the lock free, no thread started.
InitTts ==
    /\ skills = <<>>
    /\ DIdle
    /\ JIdle
    /\ MIdle
    /\ RIdle
    /\ AIdle
    /\ LIdle
    /\ BIdle
    /\ GIdle
    /\ current_engine = PyNone
    /\ engine_lock = {}
    /\ tpc = [t \in Speakers |-> "new"]
    /\ spc = "idle"
    /\ sCount = 0
    /\ interrupted = {}

NextTts ==
    \/ \E t \in Speakers :
          \/ Speak(t) \/ Acquire(t) \/ EngineInit(t) \/ Assign(t) \/ Setup(t)
          \/ RunAndWait(t) \/ Reset(t) \/ Release(t) \/ Handler(t)
    \/ StopTest
    \/ StopCall

SpecTts == InitTts /\ [][NextTts]_vars

(***************************************************************************)
(* Properties of SkillManager.run_skill (SpecDispatch)                     *)
(***************************************************************************)
DExecute == dpc = "returned" /\ dIntent # PyNone /\ dIntent.action = "execute"

DSupports(i) ==
    \E k \in 1..Len(skills[i].supported_intents) :
        skills[i].supported_intents[k] = dIntent.intent

DSupporting == {i \in 1..NumSkills : DSupports(i)}

\* The k-th skill supporting the intent, in registration order.
DNth(k) == CHOOSE i \in DSupporting : Cardinality({j \in DSupporting : j < i}) = k - 1

DChecks == SelectSeq(dCalls, LAMBDA c : c.op = "check_requirements")

DRan(i) == \E p \in 1..Len(dCalls) : dCalls[p] = CallRun(i)

\* C1: on an execute decision with two ready skills registered for the
\* intent, when the first skill's run raises, run_skill invokes the second
\* skill and returns the second's result; no exception reaches the caller.
C1_FallbackOnThrow ==
    DExecute =>
        \A a, b \in 1..NumSkills :
            ( /\ a < b
              /\ DSupporting = {a, b}
              /\ dBeh[a].ready /\ dBeh[b].ready
              /\ dBeh[a].out = "raise"
              /\ dBeh[b].out = "text" )
            => /\ DRan(b)
               /\ dRet = PyStr(ResultText(b))
               /\ dRet.t # "raise"

\* C5: on an execute decision the skills supporting the intent are tried in
\* registration order, and a run that returns a non-empty result is the
\* last call of the request: its result is returned and no later skill's
\* check_requirements or run is invoked.
C5_ShortCircuitInOrder ==
    DExecute =>
        /\ Len(DChecks) <= Cardinality(DSupporting)
        /\ \A k \in 1..Len(DChecks) : DChecks[k].skill = DNth(k)
        /\ \A p \in 1..Len(dCalls) :
              (dCalls[p].op = "run" /\ dBeh[dCalls[p].skill].out = "text")
              => /\ p = Len(dCalls)
                 /\ dRet = PyStr(ResultText(dCalls[p].skill))

C5_Witness ==
    /\ DExecute
    /\ \E a, b \in DSupporting :
          /\ a < b
          /\ dBeh[a].ready /\ dBeh[b].ready
          /\ dBeh[a].out = "text" /\ dBeh[b].out = "text"
          /\ dRet = PyStr(ResultText(a))
          /\ dCalls = <<CallCheck(a), CallRun(a)>>

\* C6: on an execute decision, a ready skill's run that returns None or an
\* empty text is not what run_skill returns: the next ready skill
\* supporting the intent is run.
C6_EmptyFallsThrough ==
    DExecute =>
        \A p \in 1..Len(dCalls) :
            LET i     == dCalls[p].skill
                later == {b \in DSupporting : b > i /\ dBeh[b].ready}
            IN  (dCalls[p].op = "run" /\ dBeh[i].out \in {"None", "empty"})
                => /\ dRet # PyNone
                   /\ dRet # PyStr(<<>>)
                   /\ later # {} => DRan(CHOOSE b \in later : \A c \in later : b <= c)

\* C9: when run_skill is called without an intent result and the input
\* equals a registered skill's name case-insensitively, only that named
\* skill may be run, also when the named skill reports not ready.
DNamed == {i \in 1..NumSkills : Lower(dInput) = Lower(skills[i].name)}

C9_ExactNameRunsOnlyNamed ==
    (dpc = "returned" /\ dIntent = PyNone /\ DNamed # {})
    => \A i \in 1..NumSkills : DRan(i) => i \in DNamed

\* some keyword of skill i is found in the input (the test of line 165)
DKeywordIn(i) ==
    \E k \in 1..Len(skills[i].keywords) :
        WordSearch(Lower(skills[i].keywords[k]), Lower(dInput))

\* C11: when run_skill receives an intent result whose action is none,
\* clarify or confirm, no skill's check_requirements or run is invoked; it
\* returns None for none, a prompt listing every candidate for clarify, and
\* a yes/no prompt naming the intent for confirm.
C11_NonExecuteRunsNothing ==
    (dpc = "returned" /\ dIntent # PyNone
        /\ dIntent.action \in {"none", "clarify", "confirm"})
    => /\ dCalls = <<>>
       /\ dIntent.action = "none" => dRet = PyNone
       /\ dIntent.action = "clarify" =>
             /\ dRet.t = "str"
             /\ \A k \in 1..Len(dIntent.candidates) :
                   Contains(dRet.v, dIntent.candidates[k])
       /\ dIntent.action = "confirm" =>
             /\ dRet.t = "str"
             /\ Contains(dRet.v, dIntent.intent)
             /\ Contains(dRet.v, <<"'? (yes / no)">>)

C11_Witness ==
    /\ dpc = "returned"
    /\ dIntent # PyNone
    /\ dIntent.action = "confirm"
    /\ \E i \in 1..NumSkills :
          /\ DKeywordIn(i)
          /\ dBeh[i].ready /\ dBeh[i].out = "text"
          /\ InList(dIntent.intent, skills[i].supported_intents)
    /\ dCalls = <<>>
    /\ dRet.t = "str"

\* C12: whenever run_skill is called with an intent result, whatever its
\* action and whatever names or keywords the input contains, only skills
\* supporting the intent of an execute decision are checked or run: the
\* exact-name path and the keyword fallback are not reached.
C12_IntentResultBarsFallback ==
    (dpc = "returned" /\ dIntent # PyNone)
    => /\ \A p \in 1..Len(dCalls) :
             dIntent.action = "execute" /\ DSupports(dCalls[p].skill)
       /\ dIntent.action = "execute" => dRet # PyNone

C12_Witness ==
    /\ DExecute
    /\ \E i, j \in 1..NumSkills :
          /\ i < j
          /\ ~DSupports(i) /\ DSupports(j)
          /\ DKeywordIn(i)
          /\ dBeh[i].ready /\ dBeh[i].out = "text"
          /\ dCalls = <<CallCheck(j), CallRun(j)>>

DUnusable(i) == ~dBeh[i].ready \/ dBeh[i].out \in {"None", "empty"}

\* C13: on an execute decision where no skill supports the intent, or every
\* supporting skill is not ready or returns None or an empty text,
\* run_skill returns one of its "no executable skill" messages: never
\* None, never an empty text, never an exception.
C13_ExhaustedIsStructured ==
    (DExecute /\ \A i \in DSupporting : DUnusable(i))
    => /\ dRet.t = "str"
       /\ dRet.v # <<>>
       /\ dRet \in {MsgNoMappedSkills(dIntent.intent),
                    MsgNoSkillCouldExecute(dIntent.intent)}

\* C14: in every path of run_skill, a run is directly preceded by the
\* check_requirements of the same skill in the same call, and that skill
\* reported ready; a skill that reports not ready is never run.
C14_ReadinessGate ==
    dpc = "returned" =>
        \A p \in 1..Len(dCalls) :
            dCalls[p].op = "run" =>
                /\ p > 1
                /\ dCalls[p - 1] = CallCheck(dCalls[p].skill)
                /\ dBeh[dCalls[p].skill].ready

C14_Witness ==
    /\ dpc = "returned"
    /\ dIntent = PyNone
    /\ \E i, j \in 1..NumSkills :
          /\ i # j
          /\ ~dBeh[i].ready /\ dBeh[j].ready
          /\ dCalls = <<CallCheck(i), CallCheck(j), CallRun(j)>>

(***************************************************************************)
(* Properties of detect_intent (SpecJudge)                                 *)
(***************************************************************************)
JGatePassed ==
    LET text == Strip(Lower(jText))
    IN  text # <<>> /\ ~GateRejects(text)

\* detect_intent has ranked the intents for this input
JRanked == jpc = "done" /\ jEncodeOk /\ JGatePassed

JScore(k) == MaxOf(jSims[k])
JTopScore == MaxOf({JScore(k) : k \in 1..NumIntents})
JIndex(intent) == CHOOSE k \in 1..NumIntents : Intents[k] = intent

\* the intents other than `top` whose score is within 0.07 of the top score
JCloseTo(top) ==
    {Intents[k] : k \in {m \in 1..NumIntents :
                            Intents[m] # top /\ JTopScore - JScore(m) <= 700}}

\* some intent other than a top-scoring one is within 0.07 of the top score
JAmbiguous ==
    \E a, b \in 1..NumIntents :
        a # b /\ JScore(a) = JTopScore /\ JTopScore - JScore(b) <= 700

\* C3: whenever another intent's score is within 0.07 (inclusive) of the top
\* score and the top score is >= 0.50, detect_intent returns clarify with
\* candidates = the top intent followed by every such close intent, also
\* when the top score is >= 0.70.
C3_AmbiguityOverridesConfidence ==
    (JRanked /\ JAmbiguous /\ JTopScore >= 5000)
    => /\ jResult.action = "clarify"
       /\ JScore(JIndex(jResult.intent)) = JTopScore
       /\ jResult.candidates[1] = jResult.intent
       /\ Len(jResult.candidates) = 1 + Cardinality(JCloseTo(jResult.intent))
       /\ {jResult.candidates[k] : k \in 2..Len(jResult.candidates)}
              = JCloseTo(jResult.intent)

C3_Witness ==
    /\ JRanked
    /\ JTopScore = 7700
    /\ \E b \in 1..NumIntents : JScore(b) = 7000
    /\ jResult.action = "clarify"
    /\ Len(jResult.candidates) >= 2

\* C4: whenever the top score is >= 0.70 and no other intent's score is
\* within 0.07 of it, detect_intent returns execute with the top intent.
C4_ExecuteTier ==
    \A a \in 1..NumIntents :
        ( /\ JRanked
          /\ JScore(a) >= 7000
          /\ \A b \in 1..NumIntents : b # a => JScore(a) - JScore(b) > 700 )
        => /\ jResult.action = "execute"
           /\ jResult.intent = Intents[a]

C4_Witness ==
    /\ JRanked
    /\ JTopScore = 7000
    /\ jResult.action = "execute"
    /\ \E b \in 1..NumIntents : JScore(b) = 6296

\* C7: if the embedding/similarity function raises while detect_intent
\* scores an input that passed the gate, detect_intent returns action=none
\* instead of raising.
C7_ScoringFailureIsNone ==
    (jpc = "done" /\ JGatePassed /\ ~jEncodeOk) => jResult = [action |-> "none"]

\* C15: whenever the top score is < 0.50, detect_intent returns action=none
\* and nothing else, also when another intent is within 0.07 of the top.
C15_BelowMediumIsNone ==
    (JRanked /\ JTopScore < 5000) => jResult = [action |-> "none"]

C15_Witness ==
    /\ JRanked
    /\ JTopScore = 4300
    /\ JAmbiguous
    /\ jResult = [action |-> "none"]

\* C16: whenever the top score is in [0.50, 0.70) and no other intent's
\* score is within 0.07 of it, detect_intent returns confirm with the top
\* intent and its score (as rounded to three decimals) as confidence.
C16_ConfirmTier ==
    \A a \in 1..NumIntents :
        ( /\ JRanked
          /\ JScore(a) >= 5000 /\ JScore(a) < 7000
          /\ \A b \in 1..NumIntents : b # a => JScore(a) - JScore(b) > 700 )
        => /\ jResult.action = "confirm"
           /\ jResult.intent = Intents[a]
           /\ Abs(jResult.confidence - JScore(a)) <= 5

C16_Witness ==
    /\ JRanked
    /\ JTopScore = 6296
    /\ \A b \in 1..NumIntents : JScore(b) # JTopScore => JScore(b) = 4300
    /\ jResult.action = "confirm"
    /\ jResult.confidence = 6300

\* C17: in every result detect_intent returns, candidates is present and
\* non-empty only when action=clarify, and intent and confidence are
\* populated whenever action is execute or confirm.
C17_IntentResultInvariant ==
    (jpc = "done" /\ "action" \in DOMAIN jResult)
    => /\ ("candidates" \in DOMAIN jResult /\ jResult.candidates # <<>>)
             => jResult.action = "clarify"
       /\ jResult.action \in {"execute", "confirm"}
             => /\ {"intent", "confidence"} \subseteq DOMAIN jResult
                /\ jResult.intent \in Range(Intents)
                /\ jResult.confidence \in Nat \ {0}

C17_Witness ==
    /\ JRanked
    /\ JTopScore = 5000
    /\ jResult.action = "clarify"
    /\ jResult.candidates # <<>>
    /\ jResult.intent = jResult.candidates[1]

(***************************************************************************)
(* Properties of CrystalBrain._background_monitor (SpecMonitor)            *)
(***************************************************************************)
MWasInvoked(i, h) == \E p \in 1..Len(mInvoked) : mInvoked[p] = <<i, h>>

\* C2: within one monitor cycle, when a periodic hook raises, every other
\* hook of the same skill and every hook of the remaining registered skills
\* is still invoked in that cycle.
C2_MonitorIsolation ==
    (mpc = "sleep" /\ mCpu <= 90 /\ mRaising # {})
    => \A i \in 1..NumSkills : \A h \in hooksOf[i] : MWasInvoked(i, h)

\* a hook invoked in the last cycle raised
MRaised == \E p \in 1..Len(mInvoked) : mInvoked[p] \in mRaising

\* C18: an exception raised by a hook never ends the monitor loop: the
\* cycle ends in the 10 s sleep (longer than the normal 5 s), the sleep is
\* followed by the loop test, and the loop is left only at a loop test that
\* finds monitor_active false.
C18_MonitorSurvivesErrors ==
    /\ []((mpc = "sleep" /\ MRaised)
            => (mSlept = BACKOFF_SLEEP /\ mSlept > NORMAL_SLEEP))
    /\ [](mpc = "exited" => ~monitor_active)
    /\ [][(mpc # "exited" /\ mpc' = "exited")
            => (mpc = "test" /\ ~monitor_active)]_vars
    /\ ((mpc = "sleep" /\ MRaised) ~> (mpc = "test"))

C18_Witness ==
    /\ mpc = "test"
    /\ monitor_active
    /\ MRaised
    /\ mSlept = BACKOFF_SLEEP

\* C19: the monitor runs from construction; once monitor_active is false
\* it stays false, no new cycle starts, the loop exits at its next test,
\* and an exited loop stays exited.
C19_StopIsTerminal ==
    /\ (monitor_active = TRUE /\ mpc = "test")
    /\ ((monitor_active = FALSE) ~> (mpc = "exited"))
    /\ [][~monitor_active
            => /\ ~monitor_active'
               /\ mpc' = "sleep" => mpc = "sleep"
               /\ mpc = "test" => mpc' = "exited"
               /\ mInvoked' = mInvoked]_vars
    /\ [][mpc = "exited" => mpc' = "exited"]_vars

C19_Witness ==
    /\ mpc = "exited"
    /\ ~monitor_active
    /\ mInvoked # <<>>

\* C20: in a cycle whose CPU reading is above 90, no hook is invoked and
\* the sleep that ends the cycle is the 10 s one, longer than the normal 5 s.
C20_OverloadSkip ==
    (mpc = "sleep" /\ mCpu > 90)
    => /\ mInvoked = <<>>
       /\ mSlept = BACKOFF_SLEEP
       /\ mSlept > NORMAL_SLEEP

C20_Witness ==
    /\ mpc = "sleep"
    /\ mCpu = 91
    /\ \E i \in 1..NumSkills : hooksOf[i] # {}
    /\ mRaising = {}
    /\ mInvoked = <<>>
    /\ mSlept = BACKOFF_SLEEP

(***************************************************************************)
(* Properties of ReminderSkill under the monitor (SpecReminder)            *)
(***************************************************************************)
RStored(id) == \E k \in 1..Len(file.tasks) : file.tasks[k].task = id

\* C8: run and reminder_monitor do not interleave on the task store, so a
\* reminder that run has saved and confirmed is never overwritten or lost:
\* whenever tasks.json is not in the middle of a rewrite, it holds every
\* confirmed reminder.
C8_ReminderNeverLost ==
    (file.valid /\ rpc # "dump" /\ hpc # "dump")
    => \A id \in confirmed : RStored(id)

(***************************************************************************)
(* Properties of SkillArbitrator.select_skill (SpecArbitrator)             *)
(***************************************************************************)
ACandidates ==
    {i \in 1..NumSkills :
        \E k \in 1..Len(skills[i].keywords) :
            Contains(CleanInput(aInput), Lower(skills[i].keywords[k]))}

\* C10: when several skills' keywords match and the classifier's answer
\* equals one candidate's name, select_skill runs exactly that candidate,
\* returns its result and does not prompt the operator.
C10_ClassifierAnswerRuns ==
    \A i \in 1..NumSkills :
        ( /\ apc = "returned"
          /\ Cardinality(ACandidates) >= 2
          /\ i \in ACandidates
          /\ aLlm = PyStr(skills[i].name)
          /\ aBeh[i].out = "text" )
        => /\ aCalls = <<CallRun(i)>>
           /\ aRet = PyStr(ResultText(i))
           /\ ~aAsked.prompt

\* The k-th candidate, in registration order.
ANthCandidate(k) ==
    CHOOSE i \in ACandidates : Cardinality({j \in ACandidates : j < i}) = k - 1

\* the classifier returned a text that holds a candidate's name
AClassifierNames ==
    /\ aLlm.t = "str"
    /\ \E i \in ACandidates : Contains(Lower(Strip(aLlm.v)), Lower(skills[i].name))

\* C21: when several skills' keywords match and the classifier fails or
\* its answer names no candidate, select_skill prompts the operator; a
\* non-numeric or out-of-range selection gives None with no run invoked,
\* and a valid selection k runs exactly the k-th candidate.
C21_OperatorDisambiguation ==
    (apc = "returned" /\ Cardinality(ACandidates) >= 2 /\ ~AClassifierNames)
    => /\ aAsked.prompt
       /\ LET parsed == ParseInt(Strip(aChoice))
          IN  IF parsed.ok /\ parsed.value \in 1..Cardinality(ACandidates)
              THEN aCalls = <<CallRun(ANthCandidate(parsed.value))>>
              ELSE aRet = PyNone /\ aCalls = <<>>

\* C22: when exactly one skill's keywords match, select_skill runs that
\* skill once, hands back what run returned and asks neither the
\* classifier nor the operator; when none matches it returns None and
\* runs nothing.
C22_SingleCandidate ==
    apc = "returned" =>
        /\ ACandidates = {} => (aRet = PyNone /\ aCalls = <<>>)
        /\ \A i \in 1..NumSkills :
              ACandidates = {i} =>
                  /\ aCalls = <<CallRun(i)>>
                  /\ ~aAsked.llm /\ ~aAsked.prompt
                  /\ aBeh[i].out = "text" => aRet = PyStr(ResultText(i))
                  /\ aBeh[i].out = "empty" => aRet = PyStr(<<>>)
                  /\ aBeh[i].out = "None" => aRet = PyNone

C22_Witness ==
    /\ apc = "returned"
    /\ \E i \in 1..NumSkills :
          /\ ACandidates = {i}
          /\ i > 1
          /\ aBeh[i].out = "text"
          /\ aCalls = <<CallRun(i)>>
          /\ aRet = PyStr(ResultText(i))

(***************************************************************************)
(* Further properties of detect_intent (SpecJudge)                         *)
(***************************************************************************)
JText == Strip(Lower(jText))

\* no gate keyword stands as a word in the text
JNoKeyword == \A kw \in GateKeywords : ~WordSearch(kw, JText)

JFirstWordIsVerb == \E k \in 1..Len(IMPERATIVE_VERBS) : IMPERATIVE_VERBS[k] = FirstWord(JText)

\* C23: for an empty input, or an input in which no gate keyword is
\* matched and whose first word is not an imperative verb, detect_intent
\* returns action=none whatever the similarities would be and whether or
\* not the embedding function works: it is not invoked.
C23_GateShortCircuit ==
    jpc = "done" =>
        \/ jResult = [action |-> "none"]
        \/ ~(JText = <<>> \/ (JNoKeyword /\ ~JFirstWordIsVerb))

C23_Witness ==
    /\ jpc = "done"
    /\ JText # <<>>
    /\ JNoKeyword /\ ~JFirstWordIsVerb
    /\ ~jEncodeOk
    /\ JTopScore = 7700
    /\ jResult = [action |-> "none"]

\* a before b in the ranking: higher score, or equal score and declared earlier
JBefore(a, b) ==
    \/ JScore(JIndex(a)) > JScore(JIndex(b))
    \/ JScore(JIndex(a)) = JScore(JIndex(b)) /\ JIndex(a) < JIndex(b)

\* C26: an intent's score is the maximum similarity over its phrases; the
\* intent of a result is the earliest-declared intent with the maximum
\* score, and the candidates of a clarify result are in descending score
\* order, equal scores in declaration order.
C26_RankingOrder ==
    (JRanked /\ "intent" \in DOMAIN jResult)
    => /\ JScore(JIndex(jResult.intent)) = JTopScore
       /\ \A k \in 1..NumIntents :
             JScore(k) = JTopScore => JIndex(jResult.intent) <= k
       /\ "candidates" \in DOMAIN jResult =>
             \A p, q \in 1..Len(jResult.candidates) :
                 p < q => JBefore(jResult.candidates[p], jResult.candidates[q])

C26_Witness ==
    /\ JRanked
    /\ \A k \in 1..NumIntents : JScore(k) = 7000
    /\ \E k \in 1..NumIntents : Cardinality(jSims[k]) > 1
    /\ jResult.action = "clarify"
    /\ jResult.intent = Intents[1]
    /\ jResult.candidates = Intents

(***************************************************************************)
(* Further properties of CrystalBrain._background_monitor (SpecMonitor)    *)
(***************************************************************************)
MHookPos(h) ==
    CASE h = "check_queue_loop" -> 1
      [] h = "price_monitor"    -> 2
      [] h = "weather_monitor"  -> 3
      [] h = "reminder_monitor" -> 4

\* C27: in a cycle that is not overloaded and in which no hook raises,
\* exactly the hooks the registered instances define are invoked, each
\* once, instance by instance in registration order and within an
\* instance in the order check_queue_loop, price_monitor, weather_monitor,
\* reminder_monitor; the cycle ends in the normal sleep.
C27_CycleOrder ==
    (mpc = "sleep" /\ mCpu <= 90 /\ mRaising = {})
    => /\ {mInvoked[p] : p \in 1..Len(mInvoked)}
             = {<<i, h>> \in (1..NumSkills) \X {"check_queue_loop", "price_monitor",
                                               "weather_monitor", "reminder_monitor"} :
                    h \in hooksOf[i]}
       /\ \A p, q \in 1..Len(mInvoked) :
             p < q =>
                 \/ mInvoked[p][1] < mInvoked[q][1]
                 \/ /\ mInvoked[p][1] = mInvoked[q][1]
                    /\ MHookPos(mInvoked[p][2]) < MHookPos(mInvoked[q][2])
       /\ mSlept = NORMAL_SLEEP

C27_Witness ==
    /\ mpc = "sleep"
    /\ mCpu = 90
    /\ mRaising = {}
    /\ Cardinality(hooksOf[1]) = 3
    /\ hooksOf[NumSkills] = {"reminder_monitor"}
    /\ Len(mInvoked) >= 4
    /\ mInvoked[1] = <<1, "check_queue_loop">>

(***************************************************************************)
(* Properties of SkillManager.load_skills (SpecLoad)                       *)
(***************************************************************************)
LRegistered(id) == \E k \in 1..Len(skills) : skills[k].instance = id

\* file n imports and every class in it can be instantiated
LCleanFile(n) ==
    /\ lFiles[n].import_ok
    /\ \A c \in 1..Len(lFiles[n].classes) : lFiles[n].classes[c].kind # "raises"

\* C24: load_skills returns without raising whatever files fail to import
\* or instantiate; every complete skill of a file that loads cleanly is
\* registered, also when other files fail; an instance without
\* supported_intents is never registered, and every registered descriptor
\* has supported_intents.
C24_LoadFaultTolerant ==
    lpc = "loaded" =>
        /\ lRet = PyNone
        /\ \A n \in 1..Len(lFiles) :
              \A c \in 1..Len(lFiles[n].classes) :
                  LET cls == lFiles[n].classes[c]
                  IN  /\ (LCleanFile(n) /\ cls.kind = "ok") => LRegistered(cls.id)
                      /\ cls.kind = "no_intents" => ~LRegistered(cls.id)
        /\ \A k \in 1..Len(skills) : "supported_intents" \in DOMAIN skills[k]

C24_Witness ==
    /\ lpc = "loaded"
    /\ Len(lFiles) >= 2
    /\ ~LCleanFile(1)
    /\ LCleanFile(2)
    /\ \E c \in 1..Len(lFiles[2].classes) :
          /\ lFiles[2].classes[c].kind = "ok"
          /\ LRegistered(lFiles[2].classes[c].id)
    /\ \E c \in 1..Len(lFiles[2].classes) : lFiles[2].classes[c].kind = "no_intents"

(***************************************************************************)
(* Properties of CrystalBrain.process (SpecBrain)                          *)
(***************************************************************************)
BExecuted == bpc = "returned" /\ bResult # PyNone /\ bResult.action = "execute"

\* some skill of the registry lists the intent, spelled the same
BSupported(intent) ==
    \E k \in 1..Len(skills) :
        \E j \in 1..Len(skills[k].supported_intents) :
            skills[k].supported_intents[j] = intent

\* C25: with the shipped skills loaded, the intent of an execute decision of
\* detect_intent is a supported_intents entry of some skill, and process
\* ends neither in "Intent recognized but no skill is mapped." nor in
\* "Intent '...' has no mapped skills."
C25_EveryIntentExecutable ==
    (skills = ShippedSkills /\ BExecuted) =>
        /\ BSupported(bResult.intent)
        /\ bFinal # PyStr(NoSkillIsMapped)
        /\ bFinal # MsgNoMappedSkills(bResult.intent)

\* C28: whenever _map_intent_to_skill finds a skill for the intent of an
\* execute decision, some skill of the registry lists that intent, spelled
\* the same, and run_skill does not report it as having no mapped skills.
C28_LookupsAgree ==
    (BExecuted /\ Truthy(bSkillName)) =>
        /\ BSupported(bResult.intent)
        /\ bOutput # MsgNoMappedSkills(bResult.intent)

(***************************************************************************)
(* Properties of SkillBridge.try_run (SpecBridge)                          *)
(***************************************************************************)
\* the instances run during the call
GRan == {gCalls[k].skill : k \in {a \in 1..Len(gCalls) : gCalls[a].op = "run"}}

\* C29: try_run never raises; when _find_skill_by_keywords selects no skill,
\* no skill instance is called; when it selects skill X, no skill other
\* than X is run.
C29_BridgeRunsSelected ==
    gpc = "returned" =>
        /\ gRet.t # "raise"
        /\ gSelected = PyNone => gCalls = <<>>
        /\ gSelected # PyNone =>
              \A i \in GRan : \E n \in 1..Len(skills) :
                  skills[n].instance = i /\ skills[n].name = gSelected.v

(***************************************************************************)
(* Properties of tts_bridge (SpecTts)                                      *)
(***************************************************************************)
\* the threads inside the with block
TInLock == {t \in Speakers : tpc[t] \in {"init", "assign", "setup", "speaking", "reset", "release"}}

\* the threads whose utterance is in progress
TSpeaking == {t \in Speakers : tpc[t] = "speaking"}

\* C30: at most one thread is inside the with block, and while a thread's
\* utterance is in progress _current_engine is the engine of that thread.
C30_CurrentEngineTracksSpeech ==
    /\ Cardinality(TInLock) <= 1
    /\ \A t \in TSpeaking : current_engine = Engine(t)
====
